---------------------------- MODULE Spec2Model ----------------------------
(***************************************************************************)
(* A model of the edl package of tk-framework-editorial:                   *)
(*   python/edl/timecode.py  frame <-> timecode conversion, class Timecode *)
(*   python/edl/edl.py       class EditEvent, class EditList (CMX parser)  *)
(*                                                                         *)
(* Conventions                                                             *)
(*   - a Python str is a sequence of one-character strings, so that        *)
(*     formatting and regular-expression matching are computed, not        *)
(*     assumed;                                                            *)
(*   - a frame rate is an integer number of thousandths of a frame per     *)
(*     second (29.97 fps is 29970), so that the float comparisons of the   *)
(*     code are exact integer comparisons;                                 *)
(*   - None / False / True of a drop_frame parameter are the strings       *)
(*     "None", "False", "True";                                            *)
(*   - a call that raises returns a record whose exc field names the       *)
(*     exception class, "None" when it returns normally;                   *)
(*   - int(a / b) and a % b are those of Python 3 (true division then      *)
(*     truncation; the remainder has the sign of the divisor).             *)
(***************************************************************************)
EXTENDS Integers, Sequences, FiniteSets, TLC

VARIABLES
    tcArgs,     \* timecode session: the fps, drop_frame and source arguments
    tcChain,    \* timecode session: the values computed so far, oldest first
    ev,         \* attribute session: the EditEvent under test
    evOp,       \* attribute session: the accesses made and their outcomes
    pc,         \* EditList: "idle", "lines", "fixup", "done" or "failed"
    visitor,    \* read_cmx_edl: the visitor given, "None" without one
    _fps,       \* EditList._fps, also the fps argument of read_cmx_edl
    _title,     \* EditList._title
    _edits,     \* EditList._edits
    _drop_frame, \* EditList._drop_frame
    _has_transitions, \* EditList._has_transitions
    edit,       \* read_cmx_edl: index in edits of the local `edit`, 0 for None
    id_offset,  \* read_cmx_edl: the local id_offset
    fix,        \* read_cmx_edl: <<event index, effect index>> of the second pass
    visits,     \* the visitor's calls so far: indexes in edits, in call order
    exc,        \* the exception that left read_cmx_edl, "None" if none
    args,       \* the args of that exception, each one a string in pieces
    file,       \* history: the lines read in the current parse, in order
    before      \* history: the events as the loop over the lines left them

vars == <<tcArgs, tcChain, ev, evOp, pc, visitor, _fps, _title, _edits,
          _drop_frame, _has_transitions, edit, id_offset, fix, visits, exc,
          args, file, before>>

tcVars == <<tcArgs, tcChain>>
evVars == <<ev, evOp>>
edlVars == <<pc, visitor, _fps, _title, _edits, _drop_frame, _has_transitions, edit,
             id_offset, fix, visits, exc, args, file, before>>

-----------------------------------------------------------------------------
(* Python str and int helpers                                              *)

DigitChars == <<"0", "1", "2", "3", "4", "5", "6", "7", "8", "9">>

IsDigitChar(c) == \E d \in 1..10 : DigitChars[d] = c

DigitVal(c) == (CHOOSE d \in 1..10 : DigitChars[d] = c) - 1

\* str.isdigit(): non-empty and every character a digit
isdigit(s) == Len(s) > 0 /\ \A i \in 1..Len(s) : IsDigitChar(s[i])

\* int(s) of a string of digits
RECURSIVE int(_)
int(s) ==
    IF Len(s) = 0 THEN 0
    ELSE 10 * int(SubSeq(s, 1, Len(s) - 1)) + DigitVal(s[Len(s)])

\* str(n) of an int
RECURSIVE str(_)
str(n) ==
    IF n < 0 THEN <<"-">> \o str(-n)
    ELSE IF n < 10 THEN <<DigitChars[n + 1]>>
    ELSE str(n \div 10) \o <<DigitChars[(n % 10) + 1]>>

\* "%02d" % n
Format02d(n) ==
    IF n >= 0 /\ n < 10 THEN <<"0">> \o str(n) ELSE str(n)

\* int(a / b) for ints a and b > 0: the quotient truncated towards zero
IntDiv(a, b) == IF a >= 0 THEN a \div b ELSE -((-a) \div b)

\* int(round(fps)) of an fps in thousandths (no supported rate is a tie)
RoundFps(f) == (f + 500) \div 1000

Truthy(b) == b = "True"

Ok(v) == [exc |-> "None", val |-> v]
Raise(e) == [exc |-> e, val |-> <<>>]

-----------------------------------------------------------------------------
(* timecode.py: module constants                                           *)

\* DROP_FRAME[fps]
DROP_FRAME(fps) ==
    IF fps = 29970 THEN [count |-> 2, fps_int |-> 30, fp10m |-> 17982]
    ELSE [count |-> 4, fps_int |-> 60, fp10m |-> 35964]

VALID_DROP_FRAME_FPS == {29970, 59940}

DROP_FRAME_DELIMITER == ";"
NON_DROP_FRAME_DELIMITER == ":"
VALID_DROP_FRAME_DELIMITERS == {";", ",", "."}
VALID_NON_DROP_FRAME_DELIMITERS == {":"}

\* The characters of the class that "(%s)" % VALID_TIMECODE_DELIMITERS puts in
\* the regular expression of str_is_drop_frame: the list is formatted as
\* [';', ',', '.', ':'], which as a character class also holds the quote and
\* the space of the list's own notation.
TimecodeDelimiterClass == {"'", ";", ",", " ", ".", ":"}

-----------------------------------------------------------------------------
(* timecode.py: Timecode.parse_timecode and Timecode.str_is_drop_frame     *)

\* re.match(r"(\d{2,3}):(\d{2}):(\d{2})[:;\.,](\d{2})", s) with an hours group
\* of hl digits; the match is anchored at the start only.
ParseMatches(s, hl) ==
    /\ Len(s) >= hl + 9
    /\ \A i \in 1..hl : IsDigitChar(s[i])
    /\ s[hl + 1] = ":"
    /\ IsDigitChar(s[hl + 2]) /\ IsDigitChar(s[hl + 3])
    /\ s[hl + 4] = ":"
    /\ IsDigitChar(s[hl + 5]) /\ IsDigitChar(s[hl + 6])
    /\ s[hl + 7] \in {":", ";", ".", ","}
    /\ IsDigitChar(s[hl + 8]) /\ IsDigitChar(s[hl + 9])

ParseGroups(s, hl) ==
    << int(SubSeq(s, 1, hl)),
       int(SubSeq(s, hl + 2, hl + 3)),
       int(SubSeq(s, hl + 5, hl + 6)),
       int(SubSeq(s, hl + 8, hl + 9)) >>

parse_timecode(timecode_str) ==
    IF ParseMatches(timecode_str, 3) THEN Ok(ParseGroups(timecode_str, 3))
    ELSE IF ParseMatches(timecode_str, 2) THEN Ok(ParseGroups(timecode_str, 2))
    ELSE Raise("ValueError")

\* re.match(".*(%s)\d{2}$" % VALID_TIMECODE_DELIMITERS, s): the string ends in
\* two digits preceded by a character of the class (strings hold no newline).
str_is_drop_frame(timecode_str) ==
    LET n == Len(timecode_str) IN
    IF /\ n >= 3
       /\ IsDigitChar(timecode_str[n]) /\ IsDigitChar(timecode_str[n - 1])
       /\ timecode_str[n - 2] \in TimecodeDelimiterClass
    THEN Ok(timecode_str[n - 2] \in VALID_DROP_FRAME_DELIMITERS)
    ELSE Raise("ValueError")

\* Mutant of _compute_drop_frame_setting: an explicit request always wins.
_compute_drop_frame_setting_RequestWins(timecode_str, drop_frame) ==
    LET tc_drop_frame == str_is_drop_frame(timecode_str) IN
    IF tc_drop_frame.exc # "None" THEN tc_drop_frame
    ELSE IF drop_frame # "None" THEN Ok(drop_frame = "True")
    ELSE tc_drop_frame

_compute_drop_frame_setting(timecode_str, drop_frame) ==
    LET tc_drop_frame == str_is_drop_frame(timecode_str) IN
    IF tc_drop_frame.exc # "None" THEN tc_drop_frame
    ELSE IF drop_frame # "None" /\ drop_frame = "False" /\ tc_drop_frame.val
         THEN Raise("BadDropFrameError")
    ELSE IF drop_frame # "None" /\ drop_frame = "True" /\ ~tc_drop_frame.val
         THEN Ok(TRUE)
    ELSE tc_drop_frame

-----------------------------------------------------------------------------
(* timecode.py: frame_from_timecode and timecode_from_frame                *)

\* Mutant of FrameNumber: drops frames at every minute, the tenth included.
FrameNumber_DropEveryMinute(hmsf, fps, tc_drop_frame) ==
    LET fps_int == RoundFps(fps)
        total_minutes == (60 * hmsf[1]) + hmsf[2]
        frame_number == (fps_int * 3600 * hmsf[1]) + (fps_int * 60 * hmsf[2])
                        + (fps_int * hmsf[3]) + hmsf[4]
    IN frame_number
       - (IF tc_drop_frame THEN DROP_FRAME(fps).count ELSE 0) * total_minutes

\* Lines 73-109, the part common to the str and the tuple form.
\* tc_drop_frame is a BOOLEAN.
FrameNumber(hmsf, fps, tc_drop_frame) ==
    LET hours == hmsf[1]
        minutes == hmsf[2]
        seconds == hmsf[3]
        frames == hmsf[4]
        drop_frames_per_min ==
            IF tc_drop_frame THEN DROP_FRAME(fps).count ELSE 0
        fps_int == RoundFps(fps)
        frames_per_hour == fps_int * 60 * 60
        frames_per_minute == fps_int * 60
        total_minutes == (60 * hours) + minutes
        frame_number == (frames_per_hour * hours)
                        + (frames_per_minute * minutes)
                        + (fps_int * seconds)
                        + frames
        frames_to_drop ==
            drop_frames_per_min * (total_minutes - IntDiv(total_minutes, 10))
    IN frame_number - frames_to_drop

\* frame_from_timecode(timecode, fps, drop_frame) for a str timecode
frame_from_timecode(timecode, fps, drop_frame) ==
    LET p == parse_timecode(timecode)
        d == _compute_drop_frame_setting(timecode, drop_frame)
    IN
    IF p.exc # "None" THEN Raise(p.exc)
    ELSE IF d.exc # "None" THEN Raise(d.exc)
    ELSE IF d.val /\ fps \notin VALID_DROP_FRAME_FPS
         THEN Raise("NotImplementedError")
    ELSE Ok(FrameNumber(p.val, fps, d.val))

\* frame_from_timecode(timecode, fps, drop_frame) for a 4-tuple timecode:
\* DROP_FRAME[fps] raises KeyError for a rate that has no entry.
frame_from_tuple(hmsf, fps, drop_frame) ==
    IF Truthy(drop_frame) /\ fps \notin VALID_DROP_FRAME_FPS
    THEN Raise("KeyError")
    ELSE Ok(FrameNumber(hmsf, fps, Truthy(drop_frame)))

\* Mutant of DropFrameAdjust: counts ten dropping minutes per ten-minute chunk.
DropFrameAdjust_TenPerChunk(frame_number, fps) ==
    LET drop_frames_per_min == DROP_FRAME(fps).count
        frames_per_10_mins == DROP_FRAME(fps).fp10m
        frames_per_min_drop == (DROP_FRAME(fps).fps_int * 60) - drop_frames_per_min
        ten_minute_chunks == IntDiv(frame_number, frames_per_10_mins)
        remaining_frames == frame_number % frames_per_10_mins
    IN frame_number + (drop_frames_per_min * 10 * ten_minute_chunks)
       + (IF remaining_frames > drop_frames_per_min
          THEN drop_frames_per_min
               * IntDiv(remaining_frames - drop_frames_per_min, frames_per_min_drop)
          ELSE 0)

\* Lines 143-223: the frame number after the dropped labels are added back.
DropFrameAdjust(frame_number, fps) ==
    LET drop_frames_per_min == DROP_FRAME(fps).count
        frames_per_10_mins == DROP_FRAME(fps).fp10m
        frames_per_min_drop == (DROP_FRAME(fps).fps_int * 60) - drop_frames_per_min
        additional_frames_per_10m == drop_frames_per_min * 9
        additional_frames_per_1m == drop_frames_per_min
        ten_minute_chunks == IntDiv(frame_number, frames_per_10_mins)
        remaining_frames == frame_number % frames_per_10_mins
        add_frames ==
            IF remaining_frames > drop_frames_per_min
            THEN (additional_frames_per_10m * ten_minute_chunks)
                 + (additional_frames_per_1m
                    * IntDiv(remaining_frames - drop_frames_per_min,
                             frames_per_min_drop))
            ELSE additional_frames_per_10m * ten_minute_chunks
    IN frame_number + add_frames

\* "%02d:%02d:%02d%s%02d" % (hours, minutes, seconds, frames_token, frames)
FormatTimecode(hours, minutes, seconds, frames_token, frames) ==
    Format02d(hours) \o <<":">> \o Format02d(minutes) \o <<":">>
    \o Format02d(seconds) \o <<frames_token>> \o Format02d(frames)

\* Lines 238-244: the frame number split into hours, minutes, seconds, frames.
\* int(x / n % 60) of a float quotient is the floor of x / n, modulo 60.
SplitFrames(frame_number, fps_int, frames_token) ==
    LET hours == IntDiv(frame_number, 3600 * fps_int)
        minutes == (frame_number \div (60 * fps_int)) % 60
        seconds == (frame_number \div fps_int) % 60
        frames == frame_number % fps_int
    IN FormatTimecode(hours, minutes, seconds, frames_token, frames)

timecode_from_frame(frame_number, fps, drop_frame) ==
    IF Truthy(drop_frame) /\ fps \notin VALID_DROP_FRAME_FPS
    THEN Raise("NotImplementedError")
    ELSE IF Truthy(drop_frame)
    THEN Ok(SplitFrames(DropFrameAdjust(frame_number, fps),
                        DROP_FRAME(fps).fps_int, DROP_FRAME_DELIMITER))
    ELSE Ok(SplitFrames(frame_number, RoundFps(fps), NON_DROP_FRAME_DELIMITER))

-----------------------------------------------------------------------------
(* timecode.py: class Timecode                                             *)

\* The attributes of a Timecode instance.
TimecodeObj(hmsf, fps, drop_frame) ==
    [_hours |-> hmsf[1], _minutes |-> hmsf[2], _seconds |-> hmsf[3],
     _frames |-> hmsf[4], _fps |-> fps, _drop_frame |-> drop_frame,
     _frame_delimiter |-> IF Truthy(drop_frame)
                          THEN DROP_FRAME_DELIMITER
                          ELSE NON_DROP_FRAME_DELIMITER]

\* Mutant of _validate_values: the source flag skips every check.
_validate_values_SourceSkipsAll(self, source) ==
    IF source THEN [exc |-> "None", val |-> self]
    ELSE IF self._minutes > 59 \/ self._seconds > 59
         THEN [exc |-> "ValueError", val |-> <<>>]
    ELSE IF self._frames * 1000 >= self._fps
         THEN [exc |-> "BadFrameRateError", val |-> <<>>]
    ELSE [exc |-> "None", val |-> self]

\* Timecode._validate_values(source); source is a BOOLEAN
_validate_values(self, source) ==
    IF self._minutes > 59 THEN Raise("ValueError")
    ELSE IF self._seconds > 59 THEN Raise("ValueError")
    ELSE IF ~source /\ self._frames * 1000 >= self._fps
         THEN Raise("BadFrameRateError")
    ELSE Ok(self)

\* Mutant of TimecodeFinish: no check of the rate of a drop-frame timecode.
TimecodeFinish_NoRateCheck(hmsf, fps, df, source) ==
    IF hmsf[2] > 59 \/ hmsf[3] > 59 THEN Raise("ValueError")
    ELSE IF ~source /\ hmsf[4] * 1000 >= fps THEN Raise("BadFrameRateError")
    ELSE Ok(TimecodeObj(hmsf, fps, df))

\* Timecode.__init__, lines 344-359: the rate check, then the validation.
\* df is the value __init__ stored in self._drop_frame.
TimecodeFinish(hmsf, fps, df, source) ==
    IF Truthy(df) /\ fps \notin VALID_DROP_FRAME_FPS
    THEN Raise("NotImplementedError")
    ELSE _validate_values(TimecodeObj(hmsf, fps, df), source)

BoolStr(b) == IF b THEN "True" ELSE "False"

\* Timecode(timecode_string, fps, drop_frame, source)
Timecode(timecode_string, fps, drop_frame, source) ==
    IF isdigit(timecode_string)
    THEN LET new_timecode_string ==
                 timecode_from_frame(int(timecode_string), fps, drop_frame)
         IN IF new_timecode_string.exc # "None"
            THEN Raise(new_timecode_string.exc)
            ELSE LET p == parse_timecode(new_timecode_string.val) IN
                 IF p.exc # "None" THEN Raise("ValueError")
                 ELSE TimecodeFinish(p.val, fps, drop_frame, source)
    ELSE LET p == parse_timecode(timecode_string)
             d == _compute_drop_frame_setting(timecode_string, drop_frame)
         IN IF p.exc # "None" THEN Raise(p.exc)
            ELSE IF d.exc # "None" THEN Raise(d.exc)
            ELSE TimecodeFinish(p.val, fps, BoolStr(d.val), source)

\* Timecode.to_frame()
to_frame(self) ==
    frame_from_tuple(<<self._hours, self._minutes, self._seconds, self._frames>>,
                     self._fps, self._drop_frame)

\* Timecode.from_frame(frame, fps, drop_frame)
from_frame(frame, fps, drop_frame) ==
    LET timecode == timecode_from_frame(frame, fps, drop_frame) IN
    IF timecode.exc # "None" THEN Raise(timecode.exc)
    ELSE Timecode(timecode.val, fps, drop_frame, FALSE)

\* Timecode.__str__()
TimecodeStr(self) ==
    FormatTimecode(self._hours, self._minutes, self._seconds,
                   self._frame_delimiter, self._frames)

-----------------------------------------------------------------------------
(* The timecode session: the module's functions applied, one call per      *)
(* step, to an input frame number or string; tcChain keeps every value.    *)

NoObj == TimecodeObj(<<0, 0, 0, 0>>, 0, "None")

\* A value of the chain: by names the call that produced it, kind is
\* "frame" (n), "str" (s), "bool" (b), "obj" (o, src) or "exc" (e).
Val(by, kind) ==
    [by |-> by, kind |-> kind, n |-> 0, s |-> <<>>, b |-> FALSE, o |-> NoObj,
     src |-> FALSE, e |-> "None"]

VFrame(by, r) ==
    IF r.exc # "None" THEN [Val(by, "exc") EXCEPT !.e = r.exc]
    ELSE [Val(by, "frame") EXCEPT !.n = r.val]
VStr(by, r) ==
    IF r.exc # "None" THEN [Val(by, "exc") EXCEPT !.e = r.exc]
    ELSE [Val(by, "str") EXCEPT !.s = r.val]
VBool(by, r) ==
    IF r.exc # "None" THEN [Val(by, "exc") EXCEPT !.e = r.exc]
    ELSE [Val(by, "bool") EXCEPT !.b = r.val]
VObj(by, r, source) ==
    IF r.exc # "None" THEN [Val(by, "exc") EXCEPT !.e = r.exc, !.src = source]
    ELSE [Val(by, "obj") EXCEPT !.o = r.val, !.src = source]

\* Bounds of the session.
MaxChain == 4
FrameWindow == 2

FpsInputs == {24000, 25000, 30000, 23976, 29970, 59940}
DropInputs == {"None", "False", "True"}

\* Frame numbers around the minute, ten-minute and hour marks of every rate.
HourMarks == {0, 1, 9, 10}
MinuteMarks == {0, 1, 2, 9, 10, 11, 59}
FrameMarks ==
    { FrameNumber(<<h, m, 0, 0>>, f, d) :
        h \in HourMarks, m \in MinuteMarks, f \in FpsInputs, d \in {FALSE} }
    \cup
    { FrameNumber(<<h, m, 0, 0>>, f, TRUE) :
        h \in HourMarks, m \in MinuteMarks, f \in VALID_DROP_FRAME_FPS }
FrameInputs ==
    { k \in { m + w : m \in FrameMarks, w \in (-FrameWindow)..FrameWindow } :
        k >= 0 }

\* Timecode strings: in and out of range fields, every kind of delimiter.
FieldInputs == {<<0, 0>>, <<59, 59>>, <<60, 0>>, <<0, 60>>, <<60, 60>>}
FramesInputs == {0, 12, 23, 24, 29, 30, 59, 60}
DelimiterInputs == {":", ";", ",", ".", "'", " ", "-"}
StrInputs ==
    { FormatTimecode(1, ms[1], ms[2], d, f) :
        ms \in FieldInputs, d \in DelimiterInputs, f \in FramesInputs }
    \cup { str(0), str(100), str(1800), str(17982) }
    \cup { <<>>,
           <<"1", ":", "0", "0", ":", "0", "0", ":", "0", "0">>,
           <<"0", "1", ";", "0", "0", ";", "0", "0", ";", "0", "0">>,
           <<"0", "1", ":", "0", "0", ":", "0", "0", ":", "0", "0", "x">>,
           <<"x", ";", "1", "2">> }

\* The session starts from an input; the event and the Edit List stay unused.
TCInit ==
    /\ tcArgs \in [fps : FpsInputs, drop_frame : DropInputs]
    /\ tcChain \in
         { << [Val("input", "frame") EXCEPT !.n = n] >> : n \in FrameInputs }
         \cup { << [Val("input", "str") EXCEPT !.s = x] >> : x \in StrInputs }
    /\ ev = <<>> /\ evOp = <<>>
    /\ pc = "idle" /\ visitor = "None" /\ _fps = 24000 /\ _title = <<>> /\ _edits = <<>>
    /\ _drop_frame = "None" /\ _has_transitions = FALSE /\ edit = 0
    /\ id_offset = 0 /\ fix = <<0, 0>> /\ visits = <<>> /\ exc = "None"
    /\ args = <<>> /\ file = <<>> /\ before = <<>>

Last == tcChain[Len(tcChain)]

Push(v) ==
    /\ Len(tcChain) < MaxChain
    /\ tcChain' = Append(tcChain, v)
    /\ UNCHANGED <<tcArgs, evVars, edlVars>>

CallTimecodeFromFrame ==
    /\ Last.kind = "frame"
    /\ Push(VStr("timecode_from_frame",
                 timecode_from_frame(Last.n, tcArgs.fps, tcArgs.drop_frame)))

CallFrameFromTimecode ==
    /\ Last.kind = "str"
    /\ Push(VFrame("frame_from_timecode",
                   frame_from_timecode(Last.s, tcArgs.fps, tcArgs.drop_frame)))

CallComputeDropFrameSetting ==
    /\ Last.kind = "str"
    /\ Push(VBool("_compute_drop_frame_setting",
                  _compute_drop_frame_setting(Last.s, tcArgs.drop_frame)))

CallTimecode ==
    /\ Last.kind = "str"
    /\ \E source \in BOOLEAN :
         Push(VObj("Timecode",
                   Timecode(Last.s, tcArgs.fps, tcArgs.drop_frame, source),
                   source))

CallToFrame ==
    /\ Last.kind = "obj"
    /\ Push(VFrame("to_frame", to_frame(Last.o)))

TCNext ==
    \/ CallTimecodeFromFrame
    \/ CallFrameFromTimecode
    \/ CallComputeDropFrameSetting
    \/ CallTimecode
    \/ CallToFrame

SpecTC == TCInit /\ [][TCNext]_vars

-----------------------------------------------------------------------------
(* Claims about the timecode functions (specification SpecTC)              *)

TCSteps == 1..(Len(tcChain) - 1)

\* Step i of the session: tcChain[i + 1] is what call `by` made of tcChain[i].
TCStep(i, by) == tcChain[i + 1].by = by

\* The supported rate/mode combinations: drop frame only at 29.97 and 59.94.
SupportedCombination ==
    tcArgs.drop_frame = "True" => tcArgs.fps \in VALID_DROP_FRAME_FPS

InTenHours(n) == n >= 0 /\ n < 10 * RoundFps(tcArgs.fps) * 3600

\* C1: for a supported rate/mode and a frame number f of the first ten hours,
\* frame_from_timecode(timecode_from_frame(f)) is f, and converting the
\* timecode so produced to a frame and back gives the same timecode.
C1_RoundTrip ==
    SupportedCombination =>
    \A i \in TCSteps :
        ( /\ tcChain[i].kind = "frame" /\ InTenHours(tcChain[i].n)
          /\ TCStep(i, "timecode_from_frame") )
        => /\ tcChain[i + 1].kind = "str"
           /\ (i + 1 \in TCSteps /\ TCStep(i + 1, "frame_from_timecode"))
              => /\ tcChain[i + 2].kind = "frame"
                 /\ tcChain[i + 2].n = tcChain[i].n
                 /\ (i + 2 \in TCSteps /\ TCStep(i + 2, "timecode_from_frame"))
                    => /\ tcChain[i + 3].kind = "str"
                       /\ tcChain[i + 3].s = tcChain[i + 1].s

C1_Witness ==
    /\ tcArgs = [fps |-> 29970, drop_frame |-> "True"]
    /\ Len(tcChain) = 4
    /\ tcChain[1].kind = "frame" /\ tcChain[1].n = 1800
    /\ tcChain[2].by = "timecode_from_frame"
    /\ tcChain[3].by = "frame_from_timecode"
    /\ tcChain[4].by = "timecode_from_frame" /\ tcChain[4].kind = "str"

\* The successor of a drop-frame label <<h, m, s, f>>: the next frame's label,
\* where the first `count` frame labels of a minute not divisible by ten do
\* not exist.
NextDropLabel(l, fps_int, count) ==
    IF l[4] + 1 < fps_int THEN <<l[1], l[2], l[3], l[4] + 1>>
    ELSE IF l[3] + 1 < 60 THEN <<l[1], l[2], l[3] + 1, 0>>
    ELSE LET m == (l[2] + 1) % 60
             h == IF l[2] + 1 < 60 THEN l[1] ELSE l[1] + 1
         IN <<h, m, 0, IF m % 10 = 0 THEN 0 ELSE count>>

\* C2: in drop-frame mode timecode_from_frame gives 00:00:59;29 for frame 1799,
\* 00:01:00;02 for 1800, 00:09:59;28 / 00:09:59;29 for 17980 / 17981 and
\* 00:10:00;00 for 17982 at 29.97 fps, and 00:01:00;04 for 3600 at 59.94 fps;
\* a skipped label is never produced and consecutive frames get consecutive
\* labels, skipping `count` labels at each minute not divisible by ten only.
C2_DropFrameBoundaries ==
    (tcArgs.drop_frame = "True" /\ tcArgs.fps \in VALID_DROP_FRAME_FPS) =>
    \A i \in TCSteps :
        (tcChain[i].kind = "frame" /\ TCStep(i, "timecode_from_frame")) =>
        LET n == tcChain[i].n
            tc == tcChain[i + 1].s
            count == DROP_FRAME(tcArgs.fps).count
            fps_int == DROP_FRAME(tcArgs.fps).fps_int
            l == parse_timecode(tc).val
            nxt == timecode_from_frame(n + 1, tcArgs.fps, "True").val
        IN /\ tcChain[i + 1].kind = "str"
           /\ (tcArgs.fps = 29970 /\ n = 1799) =>
                tc = <<"0","0",":","0","0",":","5","9",";","2","9">>
           /\ (tcArgs.fps = 29970 /\ n = 1800) =>
                tc = <<"0","0",":","0","1",":","0","0",";","0","2">>
           /\ (tcArgs.fps = 29970 /\ n = 17980) =>
                tc = <<"0","0",":","0","9",":","5","9",";","2","8">>
           /\ (tcArgs.fps = 29970 /\ n = 17981) =>
                tc = <<"0","0",":","0","9",":","5","9",";","2","9">>
           /\ (tcArgs.fps = 29970 /\ n = 17982) =>
                tc = <<"0","0",":","1","0",":","0","0",";","0","0">>
           /\ (tcArgs.fps = 59940 /\ n = 3600) =>
                tc = <<"0","0",":","0","1",":","0","0",";","0","4">>
           /\ tc[Len(tc) - 2] = ";"
           /\ ~(l[3] = 0 /\ l[4] < count /\ l[2] % 10 # 0)
           /\ parse_timecode(nxt).val = NextDropLabel(l, fps_int, count)

C2_Witness ==
    /\ tcArgs = [fps |-> 29970, drop_frame |-> "True"]
    /\ Len(tcChain) >= 2
    /\ tcChain[1].kind = "frame" /\ tcChain[1].n = 1799
    /\ tcChain[2].by = "timecode_from_frame"
    /\ tcChain[2].s = <<"0","0",":","0","0",":","5","9",";","2","9">>

\* The character before a string's last two characters, "" if there is none.
FramesDelimiter(x) == IF Len(x) >= 3 THEN x[Len(x) - 2] ELSE ""
EndsInTwoDigits(x) ==
    Len(x) >= 3 /\ IsDigitChar(x[Len(x)]) /\ IsDigitChar(x[Len(x) - 1])

EffectiveDropFrame(x) ==
    IF isdigit(x) THEN tcArgs.drop_frame = "True"
    ELSE /\ parse_timecode(x).exc = "None"
         /\ str_is_drop_frame(x).exc = "None"
         /\ \/ tcArgs.drop_frame = "True"
            \/ /\ tcArgs.drop_frame = "None"
               /\ FramesDelimiter(x) \in {";", ",", "."}

Fields(x) == parse_timecode(x).val

\* The three ValueError classes of the package.
ValueErrors == {"ValueError", "BadDropFrameError", "BadFrameRateError"}

\* A constructed Timecode has minutes and seconds below 60 and, unless it was
\* built with the source flag, frames below fps.
TimecodeInRange(r) ==
    /\ r.o._minutes <= 59 /\ r.o._seconds <= 59
    /\ r.src \/ r.o._frames * 1000 < r.o._fps

\* C5 as stated: a constructed Timecode is in range; minutes or seconds above
\* 59 always fail with a value error; without the source flag a frames field
\* >= fps always fails with BadFrameRateError.
C5_AsStated ==
    \A i \in TCSteps :
        (TCStep(i, "Timecode") /\ tcChain[i].kind = "str") =>
        LET r == tcChain[i + 1]
            x == tcChain[i].s
        IN /\ r.kind = "obj" => TimecodeInRange(r)
           /\ parse_timecode(x).exc = "None" =>
              /\ (Fields(x)[2] > 59 \/ Fields(x)[3] > 59)
                   => (r.kind = "exc" /\ r.e \in ValueErrors)
              /\ (~r.src /\ Fields(x)[4] * 1000 >= tcArgs.fps)
                   => (r.kind = "exc" /\ r.e = "BadFrameRateError")

\* The construction of a timecode string gets as far as _validate_values: both
\* regular expressions accept it, the requested drop_frame does not conflict
\* with its delimiter and no drop-frame timecode is asked for at a rate
\* without drop-frame support.
ReachesValidation(x) ==
    /\ parse_timecode(x).exc = "None"
    /\ _compute_drop_frame_setting(x, tcArgs.drop_frame).exc = "None"
    /\ ~(EffectiveDropFrame(x) /\ tcArgs.fps \notin VALID_DROP_FRAME_FPS)

\* C5 (amended): a constructed Timecode is in range. When the construction
\* gets as far as the validation, minutes or seconds above 59 fail with
\* ValueError whatever the source flag; otherwise a frames field >= fps fails
\* with BadFrameRateError without the source flag and is accepted with it.
C5_Validation ==
    \A i \in TCSteps :
        (TCStep(i, "Timecode") /\ tcChain[i].kind = "str") =>
        LET r == tcChain[i + 1]
            x == tcChain[i].s
        IN /\ r.kind = "obj" => TimecodeInRange(r)
           /\ (~isdigit(x) /\ ReachesValidation(x)) =>
              IF Fields(x)[2] > 59 \/ Fields(x)[3] > 59
              THEN r.kind = "exc" /\ r.e = "ValueError"
              ELSE IF Fields(x)[4] * 1000 >= tcArgs.fps
              THEN IF r.src
                   THEN r.kind = "obj" /\ r.o._frames = Fields(x)[4]
                   ELSE r.kind = "exc" /\ r.e = "BadFrameRateError"
              ELSE r.kind = "obj"

C5_Witness ==
    /\ tcArgs = [fps |-> 24000, drop_frame |-> "None"]
    /\ Len(tcChain) = 2
    /\ tcChain[1].s = <<"0","1",":","0","0",":","0","0",":","2","4">>
    /\ tcChain[2].by = "Timecode" /\ tcChain[2].src
    /\ tcChain[2].kind = "obj" /\ tcChain[2].o._frames = 24

-----------------------------------------------------------------------------
(* edl.py: EditEvent.  An instance is its attribute dictionary, a function *)
(* from attribute names to values; a Python dict is a function as well.    *)

EmptyDict == [k \in {} |-> 0]

\* d[k] = v on a dict, or object.__setattr__ on an instance
SetItem(d, k, v) == [x \in DOMAIN d \cup {k} |-> IF x = k THEN v ELSE d[x]]

\* x in s, for a list s
InList(x, s) == \E i \in 1..Len(s) : s[i] = x

__mine ==
    <<"_effects", "_comments", "_meta_data", "_retime", "_id", "_reel",
      "_channels", "_source_in", "_source_out", "_record_in", "_record_out">>

\* [x[1:] for x in __mine]
__protected ==
    <<"effects", "comments", "meta_data", "retime", "id", "reel",
      "channels", "source_in", "source_out", "record_in", "record_out">>

\* every name outside __mine goes to the metadata
__setattr___Unprotected(self, attr_name, value) ==
    IF InList(attr_name, __mine)
    THEN Ok(SetItem(self, attr_name, value))
    ELSE Ok(SetItem(self, "_meta_data",
                    SetItem(self._meta_data, attr_name, value)))

\* EditEvent.__setattr__: the instance after the assignment, or the
\* exception and the instance as it was.
__setattr__(self, attr_name, value) ==
    IF InList(attr_name, __protected)
    THEN [exc |-> "AttributeError", val |-> self]
    ELSE IF InList(attr_name, __mine)
    THEN Ok(SetItem(self, attr_name, value))
    ELSE Ok(SetItem(self, "_meta_data",
                    SetItem(self._meta_data, attr_name, value)))

\* EditEvent.__getattr__, called when the regular lookup finds nothing
__getattr__(self, attr_name) ==
    IF attr_name \in DOMAIN self._meta_data
    THEN Ok(self._meta_data[attr_name])
    ELSE Raise("AttributeError")

\* self.<name> for a name that is no property: the instance dictionary
\* first, __getattr__ otherwise.
InstanceAttr(self, attr_name) ==
    IF attr_name \in DOMAIN self THEN Ok(self[attr_name])
    ELSE __getattr__(self, attr_name)

\* The properties of EditEvent.
fps(self) == InstanceAttr(self, "_fps")
drop_frame(self) == InstanceAttr(self, "_drop_frame")
channels(self) == InstanceAttr(self, "_channels")
id(self) == InstanceAttr(self, "_id")
reel(self) == InstanceAttr(self, "_reel")
comments(self) == InstanceAttr(self, "_comments")
timecodes(self) ==
    Ok(<<self._source_in, self._source_out, self._record_in,
         self._record_out>>)
source_in(self) == InstanceAttr(self, "_source_in")
source_out(self) == InstanceAttr(self, "_source_out")
source_duration(self) ==
    Ok(to_frame(self._source_out).val - to_frame(self._source_in).val)
record_in(self) == InstanceAttr(self, "_record_in")
record_out(self) == InstanceAttr(self, "_record_out")
\* the out timecode counted in
record_duration_Inclusive(self) ==
    Ok(to_frame(self._record_out).val - to_frame(self._record_in).val + 1)

record_duration(self) ==
    Ok(to_frame(self._record_out).val - to_frame(self._record_in).val)
has_effects(self) == Ok(self._effects # <<>>)
has_retime(self) == Ok(DOMAIN self._retime # {})
retime_comment(self) ==
    IF "comment" \in DOMAIN self._retime THEN Ok(self._retime["comment"])
    ELSE Raise("KeyError")

Properties ==
    {"fps", "drop_frame", "channels", "id", "reel", "comments", "timecodes",
     "source_in", "source_out", "source_duration", "record_in", "record_out",
     "record_duration", "has_effects", "has_retime", "retime_comment"}

Property(self, attr_name) ==
    CASE attr_name = "fps" -> fps(self)
      [] attr_name = "drop_frame" -> drop_frame(self)
      [] attr_name = "channels" -> channels(self)
      [] attr_name = "id" -> id(self)
      [] attr_name = "reel" -> reel(self)
      [] attr_name = "comments" -> comments(self)
      [] attr_name = "timecodes" -> timecodes(self)
      [] attr_name = "source_in" -> source_in(self)
      [] attr_name = "source_out" -> source_out(self)
      [] attr_name = "source_duration" -> source_duration(self)
      [] attr_name = "record_in" -> record_in(self)
      [] attr_name = "record_out" -> record_out(self)
      [] attr_name = "record_duration" -> record_duration(self)
      [] attr_name = "has_effects" -> has_effects(self)
      [] attr_name = "has_retime" -> has_retime(self)
      [] attr_name = "retime_comment" -> retime_comment(self)

\* event.<name> read from outside: a property of the class wins over the
\* instance dictionary, and __getattr__ comes last.
getattr(self, attr_name) ==
    IF attr_name \in Properties THEN Property(self, attr_name)
    ELSE InstanceAttr(self, attr_name)

\* EditEvent.__init__: every assignment goes through __setattr__.
EditEvent(id_, reel_, channels_, source_in_, source_out_, record_in_, record_out_, fps_, drop_frame_) ==
    LET Set(o, n, v) == __setattr__(o, n, v).val
        s4 == Set(Set(Set(Set(EmptyDict, "_effects", <<>>), "_comments", <<>>),
                      "_meta_data", EmptyDict), "_retime", EmptyDict)
        s9 == Set(Set(Set(Set(Set(s4, "_fps", fps_), "_drop_frame", drop_frame_),
                          "_id", id_), "_reel", reel_), "_channels", channels_)
        si == Timecode(source_in_, fps_, drop_frame_, TRUE)
        so == Timecode(source_out_, fps_, drop_frame_, TRUE)
        ri == Timecode(record_in_, fps_, drop_frame_, FALSE)
        ro == Timecode(record_out_, fps_, drop_frame_, FALSE)
    IN  IF si.exc # "None" THEN Raise(si.exc)
        ELSE IF so.exc # "None" THEN Raise(so.exc)
        ELSE IF ri.exc # "None" THEN Raise(ri.exc)
        ELSE IF ro.exc # "None" THEN Raise(ro.exc)
        ELSE Ok(Set(Set(Set(Set(s9, "_source_in", si.val), "_source_out", so.val),
                        "_record_in", ri.val), "_record_out", ro.val))

\* " ".join(tokens)
RECURSIVE Join(_)
Join(tokens) ==
    IF Len(tokens) = 0 THEN <<>>
    ELSE IF Len(tokens) = 1 THEN tokens[1]
    ELSE tokens[1] \o <<" ">> \o Join(Tail(tokens))

\* line.split(): the runs of characters other than spaces
RECURSIVE Split(_)
Split(line) ==
    IF Len(line) = 0 THEN <<>>
    ELSE IF line[1] = " " THEN Split(Tail(line))
    ELSE LET stops == {i \in 1..Len(line) : line[i] = " "}
             stop == IF stops = {} THEN Len(line) + 1
                     ELSE CHOOSE i \in stops : \A j \in stops : i <= j
         IN <<SubSeq(line, 1, stop - 1)>> \o Split(SubSeq(line, stop, Len(line)))

RECURSIVE Pow10(_)
Pow10(k) == IF k = 0 THEN 1 ELSE 10 * Pow10(k - 1)

\* float(s) as the exact quotient num / den, or nan.  The strings taken are
\* an optional sign, then digits with an optional point, or "nan".
float(s) ==
    LET signed == Len(s) > 0 /\ s[1] \in {"-", "+"}
        body == IF signed THEN Tail(s) ELSE s
        dots == {i \in 1..Len(body) : body[i] = "."}
        dot == IF dots = {} THEN Len(body) + 1 ELSE CHOOSE i \in dots : TRUE
        whole == SubSeq(body, 1, dot - 1)
        fraction == SubSeq(body, dot + 1, Len(body))
        sign == IF signed /\ s[1] = "-" THEN -1 ELSE 1
    IN  IF /\ Len(body) = 3
           /\ body[1] \in {"n", "N"} /\ body[2] \in {"a", "A"}
           /\ body[3] \in {"n", "N"}
        THEN Ok([nan |-> TRUE, num |-> 0, den |-> 1])
        ELSE IF \/ Cardinality(dots) > 1
                \/ Len(whole) + Len(fraction) = 0
                \/ \E i \in 1..Len(whole) : ~IsDigitChar(whole[i])
                \/ \E i \in 1..Len(fraction) : ~IsDigitChar(fraction[i])
        THEN Raise("ValueError")
        ELSE Ok([nan |-> FALSE, num |-> sign * int(whole \o fraction),
                 den |-> Pow10(Len(fraction))])

\* EditEvent.add_effect(tokens)
add_effect(self, tokens) ==
    SetItem(self, "_effects", Append(self._effects, Join(tokens)))

\* EditEvent.add_comments(comments)
add_comments(self, comments_) ==
    SetItem(self, "_comments", Append(self._comments, comments_))

_FIXUP_SOURCE == TRUE

_RETIME_COMMENTS == <<"Freeze Frame", "Reverse motion", "Slow motion">>

\* The comment of a retime; a string built by "%" is kept as the sequence
\* of its pieces, the numbers as their characters.
RetimeComment(speed_token, speed, record_duration_) ==
    IF (IF speed.num < 0 THEN -speed.num ELSE speed.num) * 10000 < speed.den
    THEN <<_RETIME_COMMENTS[1], " (duration ">> \o str(record_duration_)
         \o <<")">>
    ELSE <<_RETIME_COMMENTS[IF speed.num < 0 THEN 2 ELSE 3], " (">>
         \o speed_token \o <<" fps , record dur ">> \o str(record_duration_)
         \o <<")">>

RECURSIVE GCD(_, _)
GCD(a, b) == IF b = 0 THEN a ELSE GCD(b, a % b)

\* EditEvent.add_retime(tokens): the exception, if any, and the instance as
\* the call leaves it.  float(tokens[2]) / self._fps * duration is computed
\* exactly: with fps in thousandths and the speed num / den it is
\* 1000 * num * duration / (den * fps), in lowest terms of 1000 / fps, kept
\* as its floor and its ceiling.
add_retime(self, tokens) ==
    IF Len(tokens) < 4 THEN [exc |-> "IndexError", val |-> self]
    ELSE IF fps(self).exc # "None" THEN [exc |-> fps(self).exc, val |-> self]
    ELSE IF InstanceAttr(self, "_drop_frame").exc # "None"
    THEN [exc |-> InstanceAttr(self, "_drop_frame").exc, val |-> self]
    ELSE
    LET retime_source_in ==
            Timecode(tokens[4], fps(self).val,
                     InstanceAttr(self, "_drop_frame").val, TRUE)
        speed == float(tokens[3])
        record_duration_ ==
            to_frame(self._record_out).val - to_frame(record_in(self).val).val
        duration == to_frame(self._record_out).val - to_frame(self._record_in).val
        common == GCD(1000, InstanceAttr(self, "_fps").val)
        scale == speed.val.den * (InstanceAttr(self, "_fps").val \div common)
        scaled == (1000 \div common) * speed.val.num * duration
        source_duration_floor == scaled \div scale
        source_duration_ceil == -((-scaled) \div scale)
        source_retime_in_frames ==
            to_frame(retime_source_in.val).val + source_duration_floor
        retime ==
            [tokens |-> tokens, source_in |-> retime_source_in.val,
             speed |-> tokens[3]]
        comment == RetimeComment(tokens[3], speed.val, record_duration_)
        warning ==
            <<" Warn: source is ">>
            \o str(-(to_frame(retime_source_in.val).val + source_duration_ceil))
            \o <<" frames short!">>
        new_source_in ==
            from_frame((IF source_retime_in_frames < 0 THEN 0
                        ELSE source_retime_in_frames) + 1,
                       InstanceAttr(self, "_fps").val,
                       InstanceAttr(self, "_drop_frame").val)
    IN  IF retime_source_in.exc # "None"
        THEN [exc |-> retime_source_in.exc, val |-> self]
        ELSE IF speed.exc # "None" THEN [exc |-> speed.exc, val |-> self]
        ELSE IF speed.val.nan
        THEN Ok(__setattr__(self, "_retime", retime).val)
        ELSE IF ~(_FIXUP_SOURCE /\ speed.val.num * duration < 0)
        THEN Ok(__setattr__(self, "_retime",
                            SetItem(retime, "comment", comment)).val)
        ELSE LET kept == __setattr__(self, "_retime",
                             SetItem(retime, "comment",
                                     IF source_retime_in_frames < 0
                                     THEN comment \o warning
                                     ELSE comment)).val
             IN IF new_source_in.exc # "None"
                THEN [exc |-> new_source_in.exc, val |-> kept]
                ELSE Ok(__setattr__(kept, "_source_in", new_source_in.val).val)

-----------------------------------------------------------------------------
(* The attribute session: one EditEvent, its attributes assigned and read  *)
(* from outside and its methods called, one access per step; evOp keeps    *)
(* every access with its outcome.                                          *)

MaxAttrOps == 2

\* Characters of "hh:mm:ss:ff"
TC(hours, minutes, seconds, frames) ==
    FormatTimecode(hours, minutes, seconds, ":", frames)

\* The names assigned and read: the protected names, the names of __mine,
\* the two names __init__ assigns outside __mine, names of properties and a
\* name the class does not know.
AttrNames ==
    { __protected[i] : i \in 1..Len(__protected) }
    \cup { __mine[i] : i \in 1..Len(__mine) }
    \cup {"_fps", "_drop_frame", "fps", "drop_frame", "source_duration",
          "has_effects", "foo"}

\* The names read back: those an assignment can succeed on.
ReadNames == { n \in AttrNames : ~InList(n, __protected) }

\* The value assigned to a name, of the type the attribute or the property
\* of that name has.
AttrValue(attr_name) ==
    CASE attr_name \in {"_fps", "fps"} -> 30000
      [] attr_name \in {"_drop_frame", "drop_frame"} -> "False"
      [] attr_name \in {"_reel", "reel", "_channels", "channels"} -> <<"X">>
      [] attr_name \in {"_effects", "effects", "_comments", "comments"} ->
            << <<"x">> >>
      [] attr_name \in {"_meta_data", "meta_data", "_retime", "retime"} ->
            EmptyDict
      [] attr_name \in {"_source_in", "source_in", "_source_out", "source_out",
                        "_record_in", "record_in", "_record_out", "record_out"} ->
            Timecode(TC(0, 0, 2, 0), 24000, "None", FALSE).val
      [] attr_name = "has_effects" -> TRUE
      [] OTHER -> 7

EvInit ==
    /\ tcArgs = [fps |-> 24000, drop_frame |-> "None"] /\ tcChain = <<>>
    /\ ev \in { EditEvent(1, <<"R">>, <<"V">>, TC(1, 0, 0, 0), TC(1, 0, 1, 0),
                          TC(0, 0, 0, 0), TC(0, 0, 1, 0), a[1], a[2]).val :
                  a \in {<<24000, "None">>, <<29970, "True">>} }
    /\ evOp = <<>>
    /\ pc = "idle" /\ visitor = "None" /\ _fps = 24000 /\ _title = <<>>
    /\ _edits = <<>> /\ _drop_frame = "None" /\ _has_transitions = FALSE
    /\ edit = 0 /\ id_offset = 0 /\ fix = <<0, 0>> /\ visits = <<>>
    /\ exc = "None" /\ args = <<>> /\ file = <<>> /\ before = <<>>

Access(op, attr_name, r) ==
    [op |-> op, name |-> attr_name, exc |-> r.exc, val |-> r.val]

\* event.<attr_name> = value
SetAttr(attr_name) ==
    /\ Len(evOp) < MaxAttrOps
    /\ LET r == __setattr__(ev, attr_name, AttrValue(attr_name)) IN
         /\ ev' = r.val
         /\ evOp' = Append(evOp, [op |-> "set", name |-> attr_name,
                                  exc |-> r.exc, val |-> AttrValue(attr_name)])
    /\ UNCHANGED <<tcVars, edlVars>>

\* event.<attr_name>
GetAttr(attr_name) ==
    /\ Len(evOp) < MaxAttrOps
    /\ evOp' = Append(evOp, Access("get", attr_name, getattr(ev, attr_name)))
    /\ UNCHANGED <<ev, tcVars, edlVars>>

\* event.add_effect(tokens)
CallAddEffect ==
    /\ Len(evOp) < MaxAttrOps
    /\ ev' = add_effect(ev, <<str(2), <<"R">>, <<"V">>, <<"D">>, str(24)>>)
    /\ evOp' = Append(evOp, Access("call", "add_effect", Ok(<<>>)))
    /\ UNCHANGED <<tcVars, edlVars>>

\* event.add_retime(tokens)
CallAddRetime ==
    /\ Len(evOp) < MaxAttrOps
    /\ LET r == add_retime(ev, <<<<"M", "2">>, <<"R">>,
                                 <<"-", "1", "2", ".", "0">>, TC(1, 0, 1, 0)>>)
       IN /\ ev' = r.val
          /\ evOp' = Append(evOp, Access("call", "add_retime",
                                         [exc |-> r.exc, val |-> <<>>]))
    /\ UNCHANGED <<tcVars, edlVars>>

EvNext ==
    \/ \E attr_name \in AttrNames : SetAttr(attr_name)
    \/ \E attr_name \in ReadNames : GetAttr(attr_name)
    \/ CallAddEffect
    \/ CallAddRetime

SpecEvent == EvInit /\ [][EvNext]_vars

-----------------------------------------------------------------------------
(* edl.py: EditList.read_cmx_edl.  A line is the list of its tokens, the   *)
(* text of the line is its tokens joined by one space.  None is the empty  *)
(* string for the title, 0 for the local edit, which is otherwise the      *)
(* position in the events list of the event it refers to.                  *)

\* Words of the format, as characters.
TITLE_ == <<"T", "I", "T", "L", "E", ":">>
FCM_ == <<"F", "C", "M", ":">>
DROP_ == <<"D", "R", "O", "P">>
NON_DROP_ == <<"N", "O", "N", "-", "D", "R", "O", "P">>
FRAME_ == <<"F", "R", "A", "M", "E">>
BL_ == <<"B", "L">>
M2_ == <<"M", "2">>
AA_ == <<"A", "A">>

\* line.startswith(prefix)
startswith(line, prefix) ==
    Len(line) >= Len(prefix) /\ SubSeq(line, 1, Len(prefix)) = prefix

\* The path argument of read_cmx_edl, and os.path.basename: what follows
\* the last separator.
path == <<"d", "/", "f">>

basename(p) ==
    LET seps == { i \in 1..Len(p) : p[i] = "/" }
        last == IF seps = {} THEN 0 ELSE CHOOSE i \in seps : \A j \in seps : j <= i
    IN SubSeq(p, last + 1, Len(p))

\* errors.py: the classes of the exceptions and their bases, each class
\* with the classes it derives from.
Bases(cls) ==
    CASE cls = "BadBLError" -> {"UnsupportedEDLFeature"}
      [] cls = "BadFCMError" -> {"UnsupportedEDLFeature"}
      [] cls = "UnsupportedEDLFeature" -> {"NotImplementedError"}
      [] cls = "BadFrameRateError" -> {"ValueError"}
      [] cls = "BadDropFrameError" -> {"ValueError"}
      [] OTHER -> {}

issubclass(cls, base) ==
    \/ cls = base
    \/ \E b \in Bases(cls) : b = base \/ base \in Bases(b)

\* errors.py: the message of an UnsupportedEDLFeature, _error_message() %
\* edl_name, a string kept in pieces.
BadBLMessage(edl_name) ==
    edl_name \o <<" has a black slug (BL) event, which is not supported.">>

BadFCMMessage(edl_name) ==
    <<"Unknown FCM setting found in ">> \o edl_name
        \o <<". Unable to determine drop frame setting.">>

\* The args of an exception raised by the code read_cmx_edl calls or by
\* the interpreter: one argument, its message, kept as the class's name.
ArgsOf(e) == IF e = "None" THEN <<>> ELSE << <<e>> >>

\* The state read_cmx_edl works on while it reads the lines.
Reading ==
    [title |-> _title, drop_frame |-> _drop_frame, edits |-> _edits,
     edit |-> edit, id_offset |-> id_offset, visits |-> visits,
     exc |-> "None", args |-> <<>>]

\* raise e(*args_)
Fail(s, e, args_) == [s EXCEPT !.exc = e, !.args = args_]

\* visitor(edit, logger), if a visitor was given: the call is recorded; a
\* visitor either returns or raises, Exception("x") or Exception().
Visit(s) ==
    IF visitor = "None" \/ s.edit = 0 THEN s
    ELSE LET called == [s EXCEPT !.visits = Append(@, s.edit)]
         IN IF visitor = "raises" THEN Fail(called, "Exception", << <<"x">> >>)
            ELSE IF visitor = "raises_bare" THEN Fail(called, "Exception", <<>>)
            ELSE called

\* The text of a line of the file
LineText(line_tokens) ==
    IF Len(line_tokens) = 0 THEN <<"\t">> ELSE Join(line_tokens)

\* Lines 726-732: the except clause, with the line being processed.
Except(e, args_, line) ==
    IF Len(args_) = 0
    THEN [exc |-> "IndexError", args |-> << <<"tuple index out of range">> >>]
    ELSE [exc |-> e,
          args |-> << args_[1] \o <<".\n\nError reported while parsing ">>
                        \o path \o <<" at line:\n\n">> \o line >>
                   \o Tail(args_)]

\* every notice taken, the last one read winning
ReadFCM_LastWins(s, line_tokens) ==
    IF Len(line_tokens) < 2 THEN Fail(s, "IndexError", ArgsOf("IndexError"))
    ELSE IF line_tokens[2] \in {DROP_, NON_DROP_} /\ Len(line_tokens) < 3
    THEN Fail(s, "IndexError", ArgsOf("IndexError"))
    ELSE IF ~(line_tokens[2] \in {DROP_, NON_DROP_} /\ line_tokens[3] = FRAME_)
    THEN Fail(s, "BadFCMError", <<BadFCMMessage(basename(path))>>)
    ELSE [s EXCEPT !.drop_frame = BoolStr(line_tokens[2] = DROP_)]

\* Lines 647-669
ReadFCM(s, line_tokens) ==
    IF Len(line_tokens) < 2 THEN Fail(s, "IndexError", ArgsOf("IndexError"))
    ELSE IF line_tokens[2] \in {DROP_, NON_DROP_} /\ Len(line_tokens) < 3
    THEN Fail(s, "IndexError", ArgsOf("IndexError"))
    ELSE IF ~(line_tokens[2] \in {DROP_, NON_DROP_} /\ line_tokens[3] = FRAME_)
    THEN Fail(s, "BadFCMError", <<BadFCMMessage(basename(path))>>)
    ELSE IF s.drop_frame = "None"
    THEN [s EXCEPT !.drop_frame = BoolStr(line_tokens[2] = DROP_)]
    ELSE s

\* a retime with no event open passed over
ReadRetime_Skips(s, line_tokens) ==
    IF s.edit = 0 THEN s
    ELSE LET r == add_retime(s.edits[s.edit], line_tokens)
         IN [s EXCEPT !.edits[s.edit] = r.val, !.exc = r.exc,
                      !.args = ArgsOf(r.exc)]

\* the retime also closing the event's record side on its record in
ReadRetime_MovesRecordOut(s, line_tokens) ==
    IF s.edit = 0
    THEN Fail(s, "RuntimeError", << <<"Found unexpected line">> >>)
    ELSE LET r == add_retime(s.edits[s.edit], line_tokens)
         IN [s EXCEPT !.edits[s.edit] =
                          [r.val EXCEPT !._record_out = r.val._record_in],
                      !.exc = r.exc, !.args = ArgsOf(r.exc)]

\* Lines 672-675
ReadRetime(s, line_tokens) ==
    IF s.edit = 0
    THEN Fail(s, "RuntimeError", << <<"Found unexpected line">> >>)
    ELSE LET r == add_retime(s.edits[s.edit], line_tokens)
         IN [s EXCEPT !.edits[s.edit] = r.val, !.exc = r.exc,
                      !.args = ArgsOf(r.exc)]

\* Lines 698-717, after the visitor's call
ReadEvent(s, line_tokens, id_, media_type, event_type) ==
    IF event_type = <<"C">> /\ media_type # AA_
    THEN LET n == Len(line_tokens)
             e == EditEvent(id_, line_tokens[2], media_type,
                            line_tokens[n - 3], line_tokens[n - 2],
                            line_tokens[n - 1], line_tokens[n],
                            _fps, s.drop_frame)
         IN IF e.exc # "None" THEN Fail(s, e.exc, ArgsOf(e.exc))
            ELSE [s EXCEPT !.edits = Append(s.edits, e.val),
                           !.edit = Len(s.edits) + 1]
    ELSE IF s.edit = 0
    THEN Fail(s, "RuntimeError", << <<"Found unexpected effect">> >>)
    ELSE [s EXCEPT !.edits[s.edit] = add_effect(s.edits[s.edit], line_tokens)]

\* the row's number taken as the id, whatever audio rows came before
ReadRow_NoOffset(s, line_tokens) ==
    IF Len(line_tokens) < 4 THEN Fail(s, "IndexError", ArgsOf("IndexError"))
    ELSE LET media_type == line_tokens[3]
             event_type == line_tokens[4]
             id_ == int(line_tokens[1])
         IN IF media_type = AA_ THEN [s EXCEPT !.id_offset = @ + 1]
            ELSE IF s.edit # 0 /\ id(s.edits[s.edit]).val = id_
            THEN [s EXCEPT !.edits[s.edit] =
                               add_effect(s.edits[s.edit], line_tokens)]
            ELSE IF Visit(s).exc # "None" THEN Visit(s)
            ELSE ReadEvent(Visit(s), line_tokens, id_, media_type, event_type)

\* the visitor called for the open event before the row's id is looked at
ReadRow_VisitsFirst(s, line_tokens) ==
    IF Len(line_tokens) < 4 THEN Fail(s, "IndexError", ArgsOf("IndexError"))
    ELSE LET media_type == line_tokens[3]
             event_type == line_tokens[4]
             id_ == int(line_tokens[1]) - s.id_offset
         IN IF media_type = AA_ THEN [s EXCEPT !.id_offset = @ + 1]
            ELSE IF Visit(s).exc # "None" THEN Visit(s)
            ELSE IF s.edit # 0 /\ id(s.edits[s.edit]).val = id_
            THEN [Visit(s) EXCEPT !.edits[s.edit] =
                                      add_effect(s.edits[s.edit], line_tokens)]
            ELSE ReadEvent(Visit(s), line_tokens, id_, media_type, event_type)

\* Lines 676-717
ReadRow(s, line_tokens) ==
    IF Len(line_tokens) < 4 THEN Fail(s, "IndexError", ArgsOf("IndexError"))
    ELSE LET media_type == line_tokens[3]
             event_type == line_tokens[4]
             id_ == int(line_tokens[1]) - s.id_offset
         IN IF media_type = AA_ THEN [s EXCEPT !.id_offset = @ + 1]
            ELSE IF s.edit # 0 /\ id(s.edits[s.edit]).val = id_
            THEN [s EXCEPT !.edits[s.edit] =
                               add_effect(s.edits[s.edit], line_tokens)]
            ELSE IF Visit(s).exc # "None" THEN Visit(s)
            ELSE ReadEvent(Visit(s), line_tokens, id_, media_type, event_type)

\* rows and retimes taken before the black slug is looked for
ReadTokens_RowsFirst(s, line_tokens) ==
    IF Len(line_tokens) = 0 THEN Fail(s, "IndexError", ArgsOf("IndexError"))
    ELSE IF startswith(line_tokens[1], TITLE_)
    THEN IF Len(line_tokens) > 1
         THEN [s EXCEPT !.title = Join(Tail(line_tokens))]
         ELSE s
    ELSE IF startswith(line_tokens[1], FCM_) THEN ReadFCM(s, line_tokens)
    ELSE IF line_tokens[1] = M2_ THEN ReadRetime(s, line_tokens)
    ELSE IF isdigit(line_tokens[1]) THEN ReadRow(s, line_tokens)
    ELSE IF Len(line_tokens) > 1 /\ line_tokens[2] = BL_
    THEN Fail(s, "BadBLError", <<BadBLMessage(basename(path))>>)
    ELSE IF s.edit # 0
    THEN [s EXCEPT !.edits[s.edit] =
                       add_comments(s.edits[s.edit], Join(line_tokens))]
    ELSE s

\* Lines 638-721: one line of the file.  A line left empty by line 638 is
\* skipped at 639-640 and changes nothing; the line of no token is a line of
\* white space that line 638 does not strip (a tab), which reaches
\* line_tokens[0] at 671.
ReadTokens(s, line_tokens) ==
    IF Len(line_tokens) = 0 THEN Fail(s, "IndexError", ArgsOf("IndexError"))
    ELSE IF startswith(line_tokens[1], TITLE_)
    THEN IF Len(line_tokens) > 1
         THEN [s EXCEPT !.title = Join(Tail(line_tokens))]
         ELSE s
    ELSE IF startswith(line_tokens[1], FCM_) THEN ReadFCM(s, line_tokens)
    ELSE IF Len(line_tokens) > 1 /\ line_tokens[2] = BL_
    THEN Fail(s, "BadBLError", <<BadBLMessage(basename(path))>>)
    ELSE IF line_tokens[1] = M2_ THEN ReadRetime(s, line_tokens)
    ELSE IF isdigit(line_tokens[1]) THEN ReadRow(s, line_tokens)
    ELSE IF s.edit # 0
    THEN [s EXCEPT !.edits[s.edit] =
                       add_comments(s.edits[s.edit], Join(line_tokens))]
    ELSE s

\* re.match(r'[Dd].*|[wW].*', token)
IsTransition(token) ==
    Len(token) > 0 /\ token[1] \in {"D", "d", "w", "W"}

\* One assignment of lines 752-781: event.<attr> = Timecode(string, ...),
\* the string being the token at position tok of the effect line or, for
\* tok = 0, a frame number already turned into a string.
Assignment(event, attr, tok, string, source) ==
    [event |-> event, attr |-> attr, tok |-> tok, string |-> string,
     source |-> source]

\* The assignments in order, up to the first that raises.
RECURSIVE Assign(_, _, _, _)
Assign(edits, todo, effect_tokens, list_drop_frame) ==
    IF Len(todo) = 0 THEN [exc |-> "None", edits |-> edits]
    ELSE LET a == Head(todo) IN
         IF a.tok > Len(effect_tokens)
         THEN [exc |-> "IndexError", edits |-> edits]
         ELSE LET t == Timecode(IF a.tok = 0 THEN a.string
                                ELSE effect_tokens[a.tok],
                                fps(edits[a.event]).val, list_drop_frame,
                                a.source)
              IN IF t.exc # "None" THEN [exc |-> t.exc, edits |-> edits]
                 ELSE Assign([edits EXCEPT ![a.event] =
                                  __setattr__(@, a.attr, t.val).val],
                             Tail(todo), effect_tokens, list_drop_frame)

\* Lines 770-781: the current event's timecodes taken from the effect line
TakeFromEffect(count_edits) ==
    <<Assignment(count_edits, "_source_in", 6, <<>>, FALSE),
      Assignment(count_edits, "_source_out", 7, <<>>, FALSE),
      Assignment(count_edits, "_record_in", 8, <<>>, FALSE),
      Assignment(count_edits, "_record_out", 9, <<>>, FALSE)>>

\* the record side only
ExtendPrevious_RecordOnly(edits, prev, trans_duration) ==
    <<Assignment(prev, "_record_out", 0,
                 str(to_frame(edits[prev]._record_out).val + trans_duration),
                 FALSE)>>

\* Lines 752-768: the previous event's out points moved by the duration
ExtendPrevious(edits, prev, trans_duration) ==
    <<Assignment(prev, "_source_out", 0,
                 str(to_frame(edits[prev]._source_out).val + trans_duration),
                 TRUE),
      Assignment(prev, "_record_out", 0,
                 str(to_frame(edits[prev]._record_out).val + trans_duration),
                 FALSE)>>

\* timecodes taken from the effect line for a dissolve with a previous
\* event only
FixupEffect_DissolveOnly(edits, has_transitions, list_drop_frame, count_edits, count_effects) ==
    LET this == edits[count_edits]
        prev == count_edits - 1
        effect_tokens == Split(this._effects[count_effects])
        trans_duration ==
            Timecode(effect_tokens[5], fps(this).val, list_drop_frame, FALSE)
        done(r) ==
            [exc |-> r.exc, edits |-> r.edits, has_transitions |-> TRUE]
    IN  IF ~IsTransition(effect_tokens[4])
        THEN [exc |-> "None", edits |-> edits,
              has_transitions |-> has_transitions]
        ELSE IF ~(prev > 0 /\ effect_tokens[4] = <<"D">>)
        THEN done([exc |-> "None", edits |-> edits])
        ELSE IF Len(effect_tokens) < 5
        THEN done([exc |-> "IndexError", edits |-> edits])
        ELSE IF trans_duration.exc # "None"
        THEN done([exc |-> trans_duration.exc, edits |-> edits])
        ELSE done(Assign(edits,
                         ExtendPrevious(edits, prev,
                                        to_frame(trans_duration.val).val)
                         \o TakeFromEffect(count_edits),
                         effect_tokens, list_drop_frame))

\* Lines 738-781 for the effect at position count_effects of the event at
\* position count_edits (both from 1): the exception, if any, the events
\* and has_transitions as the step leaves them.
FixupEffect(edits, has_transitions, list_drop_frame, count_edits, count_effects) ==
    LET this == edits[count_edits]
        prev == count_edits - 1
        effect_tokens == Split(this._effects[count_effects])
        trans_duration ==
            Timecode(effect_tokens[5], fps(this).val, list_drop_frame, FALSE)
        done(r) ==
            [exc |-> r.exc, edits |-> r.edits, has_transitions |-> TRUE]
    IN  IF ~IsTransition(effect_tokens[4])
        THEN [exc |-> "None", edits |-> edits,
              has_transitions |-> has_transitions]
        ELSE IF ~(prev > 0 /\ effect_tokens[4] = <<"D">>)
        THEN done(Assign(edits, TakeFromEffect(count_edits), effect_tokens,
                         list_drop_frame))
        ELSE IF Len(effect_tokens) < 5
        THEN done([exc |-> "IndexError", edits |-> edits])
        ELSE IF trans_duration.exc # "None"
        THEN done([exc |-> trans_duration.exc, edits |-> edits])
        ELSE done(Assign(edits,
                         ExtendPrevious(edits, prev,
                                        to_frame(trans_duration.val).val)
                         \o TakeFromEffect(count_edits),
                         effect_tokens, list_drop_frame))

\* The positions <<event, effect>> of the effects that the events carry,
\* in the order of the two loops of the second pass.
Effects(edits) ==
    UNION { { <<i, j>> : j \in 1..Len(edits[i]._effects) } :
            i \in 1..Len(edits) }

Before(p, q) == p[1] < q[1] \/ (p[1] = q[1] /\ p[2] < q[2])

NoEffect == <<0, 0>>

\* The first position after p, NoEffect when the loops are over.
NextEffect(edits, p) ==
    LET later == { q \in Effects(edits) : Before(p, q) }
    IN IF later = {} THEN NoEffect
       ELSE CHOOSE q \in later : \A r \in later : r = q \/ Before(q, r)

-----------------------------------------------------------------------------
(* The parse: read_cmx_edl called with a visitor on a new EditList, one    *)
(* step per line of the file, one for the end of the file and one per      *)
(* effect of the second pass.                                              *)

MaxLines == 4

\* The lines of the files: a title, the frame code modes, cut rows of three
\* events, an audio row, dissolves and a wipe, a retime and a comment.
Row(number, media_type, event_type, more) ==
    <<<<"0", "0">> \o str(number), <<"R">>, media_type, event_type>> \o more

CutTimecodes(number) ==
    <<TC(1, 0, number, 0), TC(1, 0, number + 1, 0),
      TC(0, 0, number - 1, 0), TC(0, 0, number, 0)>>

EffectTimecodes(number) ==
    <<TC(2, 0, number, 0), TC(2, 0, number + 1, 0),
      TC(0, 0, number - 1, 12), TC(0, 0, number, 12)>>

CutRows == { Row(n, <<"V">>, <<"C">>, CutTimecodes(n)) : n \in {1, 2, 3} }
AudioRows == { Row(1, AA_, <<"C">>, CutTimecodes(1)) }
EffectRows ==
    { Row(n, <<"V">>, <<"D">>, <<<<"0", "2", "4">>>> \o EffectTimecodes(n)) :
        n \in {2, 3} }
    \cup { Row(2, <<"V">>, <<"W", "0", "0", "1">>,
               <<<<"0", "1", "2">>>> \o EffectTimecodes(2)) }
HeaderLines ==
    { <<TITLE_, <<"T">>>>, <<FCM_, NON_DROP_, FRAME_>>, <<FCM_, DROP_, FRAME_>> }
OtherLines ==
    { <<M2_, <<"R">>, <<"-", "1", "2", ".", "0">>, TC(1, 0, 1, 0)>>,
      <<<<"*">>, <<"X">>>> }
Lines == HeaderLines \cup CutRows \cup AudioRows \cup EffectRows \cup OtherLines

\* EditList(fps=...): the list as its constructor leaves it.
Init ==
    /\ tcArgs = [fps |-> 24000, drop_frame |-> "None"] /\ tcChain = <<>>
    /\ ev = <<>> /\ evOp = <<>>
    /\ pc = "idle" /\ visitor = "None" /\ _fps \in {24000, 29970}
    /\ _title = <<>> /\ _edits = <<>> /\ _drop_frame = "None"
    /\ _has_transitions = FALSE
    /\ edit = 0 /\ id_offset = 0 /\ fix = NoEffect /\ visits = <<>>
    /\ exc = "None" /\ args = <<>> /\ file = <<>> /\ before = <<>>

\* read_cmx_edl(path, fps=self._fps, visitor=...): lines 626-633
StartParse(visitor_) ==
    /\ pc = "idle"
    /\ pc' = "lines"
    /\ visitor' = visitor_
    /\ _title' = <<>> /\ _edits' = <<>>
    /\ edit' = 0 /\ id_offset' = 0
    /\ visits' = <<>> /\ exc' = "None" /\ args' = <<>>
    /\ file' = <<>> /\ before' = <<>>
    /\ UNCHANGED <<_fps, _drop_frame, _has_transitions, fix, tcVars, evVars>>

\* One iteration of the loop over the lines; an exception leaves the loop
\* and, through the except clause, read_cmx_edl.
ReadLine(line_tokens) ==
    /\ pc = "lines" /\ Len(file) < MaxLines
    /\ \E s \in {ReadTokens(Reading, line_tokens)} :
         /\ _title' = s.title /\ _drop_frame' = s.drop_frame
         /\ _edits' = s.edits /\ edit' = s.edit /\ id_offset' = s.id_offset
         /\ visits' = s.visits
         /\ exc' = IF s.exc = "None" THEN "None"
                   ELSE Except(s.exc, s.args, LineText(line_tokens)).exc
         /\ args' = IF s.exc = "None" THEN <<>>
                    ELSE Except(s.exc, s.args, LineText(line_tokens)).args
         /\ pc' = IF s.exc # "None" THEN "failed" ELSE "lines"
    /\ file' = Append(file, line_tokens)
    /\ UNCHANGED <<visitor, _fps, _has_transitions, fix, before, tcVars,
                   evVars>>

\* Lines 722-735: the end of the file, the last event handed to the visitor
\* and the second pass entered.
EndOfFile ==
    /\ pc = "lines"
    /\ \E s \in {Visit(Reading)} :
         /\ visits' = s.visits
         /\ exc' = IF s.exc = "None" THEN "None"
                   ELSE Except(s.exc, s.args, LineText(file[Len(file)])).exc
         /\ args' = IF s.exc = "None" THEN <<>>
                    ELSE Except(s.exc, s.args, LineText(file[Len(file)])).args
         /\ before' = IF s.exc = "None" THEN _edits ELSE before
         /\ fix' = IF s.exc = "None" THEN NextEffect(_edits, NoEffect) ELSE fix
         /\ pc' = IF s.exc # "None" THEN "failed"
                  ELSE IF NextEffect(_edits, NoEffect) = NoEffect THEN "done"
                  ELSE "fixup"
    /\ UNCHANGED <<visitor, _fps, _title, _edits, _drop_frame,
                   _has_transitions, edit, id_offset, file, tcVars, evVars>>

\* Lines 737-781: one effect of the second pass; an exception leaves
\* read_cmx_edl.
FixupStep ==
    /\ pc = "fixup"
    /\ \E r \in {FixupEffect(_edits, _has_transitions, _drop_frame,
                             fix[1], fix[2])} :
         /\ _edits' = r.edits /\ _has_transitions' = r.has_transitions
         /\ exc' = r.exc /\ args' = ArgsOf(r.exc)
         /\ fix' = IF r.exc # "None" THEN fix ELSE NextEffect(_edits, fix)
         /\ pc' = IF r.exc # "None" THEN "failed"
                  ELSE IF NextEffect(_edits, fix) = NoEffect THEN "done"
                  ELSE "fixup"
    /\ UNCHANGED <<visitor, _fps, _title, _drop_frame, edit, id_offset,
                   visits, file, before, tcVars, evVars>>

Next ==
    \/ StartParse("records")
    \/ \E line_tokens \in Lines : ReadLine(line_tokens)
    \/ EndOfFile
    \/ FixupStep

Spec == Init /\ [][Next]_vars

-----------------------------------------------------------------------------
(* The parse of files with lines that fail it, at 24 fps, with a visitor   *)
(* that returns or raises.                                                 *)

\* Black slug lines: a row, a retime, a comment; and a title and a frame
\* code mode line whose second token is BL.
BLLines ==
    { <<<<"0", "0", "1">>, BL_, <<"V">>, <<"C">>>> \o CutTimecodes(1),
      <<M2_, BL_, <<"-", "1", "2", ".", "0">>, TC(1, 0, 1, 0)>>,
      <<<<"*">>, BL_>>,
      <<TITLE_, BL_>>,
      <<FCM_, BL_>> }

\* Frame code mode lines: one recognized, the others not, with two, one
\* and no token after FCM:.
FCMLines ==
    { <<FCM_, DROP_, FRAME_>>,
      <<FCM_, <<"X">>, FRAME_>>,
      <<FCM_, DROP_, <<"X">>>>,
      <<FCM_, NON_DROP_>>,
      <<FCM_>> }

\* Rows and retimes: two cuts, a cut of one frame, a dissolve, a retime, a
\* row cut short and a cut whose record out has more frames than a second
\* holds.
RowLines ==
    { Row(n, <<"V">>, <<"C">>, CutTimecodes(n)) : n \in {1, 2} }
    \cup { Row(1, <<"V">>, <<"C">>,
               <<TC(2, 0, 0, 0), TC(2, 0, 0, 1), TC(1, 0, 0, 0), TC(1, 0, 0, 1)>>),
           Row(2, <<"V">>, <<"D">>, <<<<"0", "2", "4">>>> \o EffectTimecodes(2)),
           <<M2_, <<"R">>, <<"-", "1", "2", ".", "0">>, TC(1, 0, 1, 0)>>,
           <<<<"0", "0", "3">>, <<"R">>, <<"V">>>>,
           Row(3, <<"V">>, <<"C">>,
               <<TC(1, 0, 3, 0), TC(1, 0, 4, 0), TC(0, 0, 2, 0), TC(0, 0, 3, 30)>>) }

FailureLines == BLLines \cup FCMLines \cup RowLines

Visitors == {"None", "records", "raises", "raises_bare"}

\* EditList(fps=24): the list as its constructor leaves it.
InitFailures ==
    /\ tcArgs = [fps |-> 24000, drop_frame |-> "None"] /\ tcChain = <<>>
    /\ ev = <<>> /\ evOp = <<>>
    /\ pc = "idle" /\ visitor = "None" /\ _fps = 24000
    /\ _title = <<>> /\ _edits = <<>> /\ _drop_frame = "None"
    /\ _has_transitions = FALSE
    /\ edit = 0 /\ id_offset = 0 /\ fix = NoEffect /\ visits = <<>>
    /\ exc = "None" /\ args = <<>> /\ file = <<>> /\ before = <<>>

NextFailures ==
    \/ \E visitor_ \in Visitors : StartParse(visitor_)
    \/ \E line_tokens \in FailureLines : ReadLine(line_tokens)
    \/ EndOfFile
    \/ FixupStep

SpecFailures == InitFailures /\ [][NextFailures]_vars

-----------------------------------------------------------------------------
(* The parse of files of rows, comments and lines of white space, at 24    *)
(* fps, with a visitor that returns.                                       *)

\* Two cut rows, an audio row, a dissolve, a retime, two comments and a
\* line that holds a tab and nothing else.
CommentLines ==
    { Row(n, <<"V">>, <<"C">>, CutTimecodes(n)) : n \in {1, 2} }
    \cup AudioRows
    \cup { Row(2, <<"V">>, <<"D">>, <<<<"0", "2", "4">>>> \o EffectTimecodes(2)),
           <<M2_, <<"R">>, <<"1", "2", ".", "0">>, TC(1, 0, 1, 0)>>,
           <<<<"*">>, <<"X">>>>,
           <<<<"*">>, <<"F", "R", "O", "M">>, <<"Y">>>>,
           <<>> }

\* EditList(fps=24): the list as its constructor leaves it.
InitComments ==
    /\ tcArgs = [fps |-> 24000, drop_frame |-> "None"] /\ tcChain = <<>>
    /\ ev = <<>> /\ evOp = <<>>
    /\ pc = "idle" /\ visitor = "None" /\ _fps = 24000
    /\ _title = <<>> /\ _edits = <<>> /\ _drop_frame = "None"
    /\ _has_transitions = FALSE
    /\ edit = 0 /\ id_offset = 0 /\ fix = NoEffect /\ visits = <<>>
    /\ exc = "None" /\ args = <<>> /\ file = <<>> /\ before = <<>>

NextComments ==
    \/ StartParse("records")
    \/ \E line_tokens \in CommentLines : ReadLine(line_tokens)
    \/ EndOfFile
    \/ FixupStep

SpecComments == InitComments /\ [][NextComments]_vars

-----------------------------------------------------------------------------
(* One EditList parsing a file after another: read_cmx_edl called again    *)
(* on the list a parse has left, at 29.97 fps.                             *)

\* A title, the two frame code modes, two cut rows and a dissolve.
ReparseLines ==
    { <<TITLE_, <<"T">>>>, <<FCM_, NON_DROP_, FRAME_>>, <<FCM_, DROP_, FRAME_>> }
    \cup { Row(n, <<"V">>, <<"C">>, CutTimecodes(n)) : n \in {1, 2} }
    \cup { Row(2, <<"V">>, <<"D">>, <<<<"0", "2", "4">>>> \o EffectTimecodes(2)) }

\* EditList(fps=29.97): the list as its constructor leaves it.
InitReparse ==
    /\ tcArgs = [fps |-> 24000, drop_frame |-> "None"] /\ tcChain = <<>>
    /\ ev = <<>> /\ evOp = <<>>
    /\ pc = "idle" /\ visitor = "None" /\ _fps = 29970
    /\ _title = <<>> /\ _edits = <<>> /\ _drop_frame = "None"
    /\ _has_transitions = FALSE
    /\ edit = 0 /\ id_offset = 0 /\ fix = NoEffect /\ visits = <<>>
    /\ exc = "None" /\ args = <<>> /\ file = <<>> /\ before = <<>>

\* read_cmx_edl called on a list that has parsed a file, or has failed to:
\* lines 626-633 again, on the attributes the earlier call has left.
ParseAgain(visitor_) ==
    /\ pc \in {"done", "failed"}
    /\ pc' = "lines"
    /\ visitor' = visitor_
    /\ _title' = <<>> /\ _edits' = <<>>
    /\ edit' = 0 /\ id_offset' = 0 /\ fix' = NoEffect
    /\ visits' = <<>> /\ exc' = "None" /\ args' = <<>>
    /\ file' = <<>> /\ before' = <<>>
    /\ UNCHANGED <<_fps, _drop_frame, _has_transitions, tcVars, evVars>>

NextReparse ==
    \/ StartParse("records")
    \/ \E line_tokens \in ReparseLines : ReadLine(line_tokens)
    \/ EndOfFile
    \/ FixupStep
    \/ ParseAgain("records")

SpecReparse == InitReparse /\ [][NextReparse]_vars

\* EditList(fps=...) and the start of its first read_cmx_edl
FreshList ==
    [title |-> <<>>, drop_frame |-> "None", edits |-> <<>>, edit |-> 0,
     id_offset |-> 0, visits |-> <<>>, exc |-> "None", args |-> <<>>]

\* Lines 635-721: the loop over the lines, left by the first exception
RECURSIVE ReadAll(_, _)
ReadAll(s, lines) ==
    IF Len(lines) = 0 \/ s.exc # "None" THEN s
    ELSE ReadAll(ReadTokens(s, Head(lines)), Tail(lines))

\* Lines 735-781: the second pass from the effect at position p on
RECURSIVE FixAll(_, _, _, _)
FixAll(edits, has_transitions, list_drop_frame, p) ==
    IF p = NoEffect
    THEN [exc |-> "None", edits |-> edits, has_transitions |-> has_transitions]
    ELSE LET r == FixupEffect(edits, has_transitions, list_drop_frame,
                              p[1], p[2])
         IN IF r.exc # "None" THEN r
            ELSE FixAll(r.edits, r.has_transitions, list_drop_frame,
                        NextEffect(edits, p))

\* EditList(fps=...).read_cmx_edl(path) on a new list: what the list holds
\* when the call returns, or the exception that leaves it.
FreshParse(lines) ==
    LET s == ReadAll(FreshList, lines)
        v == IF s.exc # "None" THEN s ELSE Visit(s)
        f == FixAll(v.edits, FALSE, v.drop_frame, NextEffect(v.edits, NoEffect))
    IN IF v.exc # "None"
       THEN [exc |-> v.exc, title |-> v.title, edits |-> v.edits,
             drop_frame |-> v.drop_frame, has_transitions |-> FALSE]
       ELSE [exc |-> f.exc, title |-> v.title, edits |-> f.edits,
             drop_frame |-> v.drop_frame,
             has_transitions |-> f.has_transitions]

-----------------------------------------------------------------------------
(* timecode.py: the operators of Timecode, and the session that applies    *)
(* them: tcChain starts with a Timecode, tcArgs.right is the other operand *)
(* of every operation of the session.                                      *)

\* An operand: an instance of Timecode, an int, or a value of another type.
Operand(type, o, n) == [type |-> type, o |-> o, n |-> n]

\* Timecode.__add__(right)
__add__(self, right) ==
    IF right.type = "Timecode"
    THEN from_frame(to_frame(self).val + to_frame(right.o).val,
                    self._fps, self._drop_frame)
    ELSE IF right.type = "int"
    THEN from_frame(to_frame(self).val + right.n, self._fps, self._drop_frame)
    ELSE Raise("TypeError")

\* Timecode.__radd__(left)
__radd__(self, left) == __add__(self, left)

\* Timecode.__sub__(right)
__sub__(self, right) ==
    IF right.type = "Timecode"
    THEN from_frame(to_frame(self).val - to_frame(right.o).val,
                    self._fps, self._drop_frame)
    ELSE IF right.type = "int"
    THEN from_frame(to_frame(self).val - right.n, self._fps, self._drop_frame)
    ELSE Raise("TypeError")

\* Timecode.__rsub__(left)
__rsub__(self, left) == __sub__(self, left)

\* Timecodes of the session: around the second and the hour at 24 fps,
\* around the first dropped labels at 29.97 fps.
ArithTimecodes ==
    { Timecode(TC(hmsf[1], hmsf[2], hmsf[3], hmsf[4]), 24000, "False", FALSE).val :
        hmsf \in {<<0, 0, 0, 10>>, <<0, 0, 1, 0>>, <<1, 0, 0, 0>>} }
    \cup { Timecode(FormatTimecode(hmsf[1], hmsf[2], hmsf[3], ";", hmsf[4]),
                    29970, "True", FALSE).val :
             hmsf \in {<<0, 0, 0, 10>>, <<0, 0, 59, 28>>, <<0, 1, 0, 2>>} }

ArithOffsets == {-25, -11, -1, 0, 1, 14, 1800}
OtherTypes == {"float", "str", "NoneType"}

Operands ==
    { Operand("Timecode", o, 0) : o \in ArithTimecodes }
    \cup { Operand("int", NoObj, n) : n \in ArithOffsets }
    \cup { Operand(type, NoObj, 0) : type \in OtherTypes }

ArithInit ==
    /\ tcArgs \in [fps : {24000}, drop_frame : {"None"}, right : Operands]
    /\ tcChain \in { << [Val("input", "obj") EXCEPT !.o = o] >> : o \in ArithTimecodes }
    /\ ev = <<>> /\ evOp = <<>>
    /\ pc = "idle" /\ visitor = "None" /\ _fps = 24000 /\ _title = <<>> /\ _edits = <<>>
    /\ _drop_frame = "None" /\ _has_transitions = FALSE /\ edit = 0
    /\ id_offset = 0 /\ fix = <<0, 0>> /\ visits = <<>> /\ exc = "None"
    /\ args = <<>> /\ file = <<>> /\ before = <<>>

CallAdd ==
    /\ Last.kind = "obj"
    /\ Push(VObj("__add__", __add__(Last.o, tcArgs.right), FALSE))

CallRadd ==
    /\ Last.kind = "obj"
    /\ Push(VObj("__radd__", __radd__(Last.o, tcArgs.right), FALSE))

CallSub ==
    /\ Last.kind = "obj"
    /\ Push(VObj("__sub__", __sub__(Last.o, tcArgs.right), FALSE))

CallRsub ==
    /\ Last.kind = "obj"
    /\ Push(VObj("__rsub__", __rsub__(Last.o, tcArgs.right), FALSE))

ArithNext == CallAdd \/ CallRadd \/ CallSub \/ CallRsub \/ CallToFrame

SpecArith == ArithInit /\ [][ArithNext]_vars

-----------------------------------------------------------------------------
(* The session of the string functions: Timecode.parse_timecode and        *)
(* Timecode.str_is_drop_frame applied to a timecode string.                *)

\* Delimiters put between the groups: the four of the format, and a quote,
\* a space, a dash, a bracket, a letter and a digit.
AnyDelimiters == {":", ";", ",", ".", "'", " ", "-", "[", "x", "5"}

\* hours, minutes 12, seconds 34 and frames 56 with the three delimiters.
Groups(hours, d1, d2, d3) ==
    hours \o <<d1, "1", "2", d2, "3", "4", d3, "5", "6">>

\* Strings of four groups with one delimiter varied, or the same one three
\* times; hours of one to four digits; a group missing, a digit missing, a
\* character too many; the empty string; and the strings of the timecode
\* session.
StringInputs ==
    { Groups(<<"0", "0">>, d[1], d[2], d[3]) :
        d \in ({":"} \X {":"} \X AnyDelimiters)
              \cup ({":"} \X AnyDelimiters \X {":"})
              \cup (AnyDelimiters \X {":"} \X {":"})
              \cup { <<c, c, c>> : c \in AnyDelimiters } }
    \cup { Groups(hours, ":", ":", d) :
             hours \in {<<"1">>, <<"0", "0", "1">>, <<"0", "0", "0", "1">>},
             d \in {":", ";"} }
    \cup { Groups(<<"0", "0">>, ":", ":", d) \o tail :
             d \in {":", ";"}, tail \in {<<"7">>, <<"x">>, <<" ">>} }
    \cup { <<"0", "0", ":", "1", "2", ":", "3", "4">>,
           <<"0", "0", ":", "1", "2", ":", "3", "4", ":", "5">>,
           <<"x", ";", "1", "2">>, <<";", "1", "2">>, <<"1", "2">>, <<>> }
    \cup StrInputs

\* The result of parse_timecode, a tuple, or the exception it raised.
VTuple(by, r) ==
    IF r.exc # "None" THEN [Val(by, "exc") EXCEPT !.e = r.exc]
    ELSE [Val(by, "tuple") EXCEPT !.s = r.val]

StringsInit ==
    /\ tcArgs = [fps |-> 24000, drop_frame |-> "None"]
    /\ tcChain \in { << [Val("input", "str") EXCEPT !.s = x] >> : x \in StringInputs }
    /\ ev = <<>> /\ evOp = <<>>
    /\ pc = "idle" /\ visitor = "None" /\ _fps = 24000 /\ _title = <<>> /\ _edits = <<>>
    /\ _drop_frame = "None" /\ _has_transitions = FALSE /\ edit = 0
    /\ id_offset = 0 /\ fix = <<0, 0>> /\ visits = <<>> /\ exc = "None"
    /\ args = <<>> /\ file = <<>> /\ before = <<>>

CallParseTimecode ==
    /\ Last.kind = "str"
    /\ Push(VTuple("parse_timecode", parse_timecode(Last.s)))

CallStrIsDropFrame ==
    /\ Last.kind = "str"
    /\ Push(VBool("str_is_drop_frame", str_is_drop_frame(Last.s)))

StringsNext == CallParseTimecode \/ CallStrIsDropFrame

SpecStrings == StringsInit /\ [][StringsNext]_vars

-----------------------------------------------------------------------------
(* The retime session: one EditEvent, add_retime called on it with M2      *)
(* tokens of several speeds and source ins; evOp keeps every call with its *)
(* tokens and its outcome.                                                 *)

MaxRetimes == 2

\* The speed tokens: reverse, slower than a frame, around the freeze
\* threshold on both sides, zero, forward, and not a number.
RetimeSpeeds ==
    { <<"-", "1", "2", ".", "0">>, <<"-", "0", ".", "5">>,
      <<"-", "0", ".", "0", "0", "0", "1">>,
      <<"-", "0", ".", "0", "0", "0", "0", "9">>,
      <<"0">>, <<"0", ".", "0", "0", "0", "0", "9">>,
      <<"0", ".", "0", "0", "0", "1">>, <<"1", "2", ".", "0">>, <<"4", "8">>,
      <<"n", "a", "n">> }

\* The source in of the M2 line: the first frame, a frame nearer to it
\* than a reverse second, and a frame far from it.
RetimeSources == { TC(0, 0, 0, 0), TC(0, 0, 0, 5), TC(1, 0, 1, 0) }

\* The record in and out of the event: a second, two seconds, and nothing.
RetimeRecords ==
    { <<TC(0, 0, 0, 0), TC(0, 0, 1, 0)>>, <<TC(0, 0, 1, 0), TC(0, 0, 3, 0)>>,
      <<TC(0, 0, 1, 0), TC(0, 0, 1, 0)>> }

RetimeInit ==
    /\ tcArgs = [fps |-> 24000, drop_frame |-> "None"] /\ tcChain = <<>>
    /\ ev \in { EditEvent(1, <<"R">>, <<"V">>, TC(1, 0, 1, 0), TC(1, 0, 2, 0),
                          rec[1], rec[2], a[1], a[2]).val :
                  rec \in RetimeRecords,
                  a \in {<<24000, "None">>, <<29970, "True">>} }
    /\ evOp = <<>>
    /\ pc = "idle" /\ visitor = "None" /\ _fps = 24000 /\ _title = <<>>
    /\ _edits = <<>> /\ _drop_frame = "None" /\ _has_transitions = FALSE
    /\ edit = 0 /\ id_offset = 0 /\ fix = <<0, 0>> /\ visits = <<>>
    /\ exc = "None" /\ args = <<>> /\ file = <<>> /\ before = <<>>

\* event.add_retime(["M2", reel, speed, source in])
CallRetime(speed_token, source_token) ==
    /\ Len(evOp) < MaxRetimes
    /\ LET tokens == <<M2_, <<"R">>, speed_token, source_token>>
           r == add_retime(ev, tokens)
       IN /\ ev' = r.val
          /\ evOp' = Append(evOp, Access("call", "add_retime",
                                         [exc |-> r.exc, val |-> tokens]))
    /\ UNCHANGED <<tcVars, edlVars>>

RetimeNext ==
    \E speed_token \in RetimeSpeeds, source_token \in RetimeSources :
        CallRetime(speed_token, source_token)

SpecRetime == RetimeInit /\ [][RetimeNext]_vars

-----------------------------------------------------------------------------
(* The label session: drop frame Timecodes built one after the other from  *)
(* strings around the first minute and the tenth, each asked its frame.    *)

MaxLabels == 2

\* The last two labels of a minute, the labels that open the next one, the
\* last label of a tenth minute and the first of the minute after it.
LabelInputs ==
    { FormatTimecode(0, 0, 59, ";", f) : f \in {28, 29, 56, 59} }
    \cup { FormatTimecode(0, 1, 0, ";", f) : f \in 0..5 }
    \cup { FormatTimecode(0, 9, 59, ";", 29), FormatTimecode(0, 10, 0, ";", 0) }

LabelsInit ==
    /\ tcArgs \in [fps : VALID_DROP_FRAME_FPS, drop_frame : {"None", "True"}]
    /\ tcChain = <<>>
    /\ ev = <<>> /\ evOp = <<>>
    /\ pc = "idle" /\ visitor = "None" /\ _fps = 24000 /\ _title = <<>> /\ _edits = <<>>
    /\ _drop_frame = "None" /\ _has_transitions = FALSE /\ edit = 0
    /\ id_offset = 0 /\ fix = <<0, 0>> /\ visits = <<>> /\ exc = "None"
    /\ args = <<>> /\ file = <<>> /\ before = <<>>

\* Timecode(timecode_string, fps=..., drop_frame=...)
NewTimecode(timecode_string) ==
    /\ Len(tcChain) < 2 * MaxLabels
    /\ Len(tcChain) > 0 => Last.kind # "obj"
    /\ tcChain' = Append(tcChain,
                         VObj("Timecode",
                              Timecode(timecode_string, tcArgs.fps,
                                       tcArgs.drop_frame, FALSE), FALSE))
    /\ UNCHANGED <<tcArgs, evVars, edlVars>>

\* timecode.to_frame() of the Timecode just built
FrameOfLast ==
    /\ Len(tcChain) > 0 /\ Last.kind = "obj"
    /\ tcChain' = Append(tcChain, VFrame("to_frame", to_frame(Last.o)))
    /\ UNCHANGED <<tcArgs, evVars, edlVars>>

LabelsNext ==
    \/ \E timecode_string \in LabelInputs : NewTimecode(timecode_string)
    \/ FrameOfLast

SpecLabels == LabelsInit /\ [][LabelsNext]_vars

-----------------------------------------------------------------------------
(* Claims about the attributes of an EditEvent                             *)

\* The last access of the session and the one before it.
LastAccess == evOp[Len(evOp)]
Assigned(attr_name) == Len(evOp) > 0 /\ LastAccess.op = "set" /\ LastAccess.name = attr_name

\* The step is an assignment of the given name.
Assigns(attr_name) ==
    /\ Len(evOp') = Len(evOp) + 1
    /\ evOp'[Len(evOp')].op = "set"
    /\ evOp'[Len(evOp')].name = attr_name

ReservedNames ==
    {"effects", "comments", "meta_data", "retime", "id", "reel", "channels",
     "source_in", "source_out", "record_in", "record_out"}

\* C9: assigning to a reserved field name (effects, comments, meta_data,
\* retime, id, reel, channels, source_in, source_out, record_in, record_out)
\* fails with AttributeError and leaves the event's fields and its metadata
\* map as they were.
C9_ReservedAssignment ==
    [][ \A attr_name \in ReservedNames :
          Assigns(attr_name) =>
             /\ evOp'[Len(evOp')].exc = "AttributeError"
             /\ ev' = ev ]_vars

\* An event that has an effect was assigned the reserved name effects.
C9_Witness ==
    /\ Len(evOp) = 2
    /\ evOp[1].name = "add_effect"
    /\ evOp[2].op = "set" /\ evOp[2].name = "effects"
    /\ evOp[2].exc = "AttributeError"
    /\ Len(ev._effects) = 1

\* What the event reports for its core fields.
CoreFields ==
    {"id", "reel", "channels", "fps", "drop_frame", "source_in", "source_out",
     "record_in", "record_out", "source_duration", "record_duration",
     "has_effects", "has_retime"}

SameReport(a, b) == a.exc = b.exc /\ (a.exc = "None" => a.val = b.val)

\* C10 as stated: assigning a name that is not reserved succeeds, stores
\* the value in the metadata map and changes nothing the event reports for
\* its core fields, and reading the name right after returns the value.
C10_AsStated ==
    [][ /\ \A attr_name \in AttrNames \ ReservedNames :
             Assigns(attr_name) =>
                /\ evOp'[Len(evOp')].exc = "None"
                /\ attr_name \in DOMAIN ev'._meta_data
                /\ ev'._meta_data[attr_name] = evOp'[Len(evOp')].val
                /\ \A f \in CoreFields :
                      SameReport(getattr(ev', f), getattr(ev, f))
        /\ \A attr_name \in AttrNames \ ReservedNames :
             ( /\ Assigned(attr_name)
               /\ Len(evOp') = Len(evOp) + 1
               /\ evOp'[Len(evOp')].op = "get"
               /\ evOp'[Len(evOp')].name = attr_name )
             => /\ evOp'[Len(evOp')].exc = "None"
                /\ evOp'[Len(evOp')].val = LastAccess.val ]_vars

-----------------------------------------------------------------------------
(* Claims about read_cmx_edl                                               *)

\* The lines of the file that are numbered rows, audio-only rows, cut rows.
IsRow(line_tokens) == Len(line_tokens) >= 4 /\ isdigit(line_tokens[1])
IsAudio(line_tokens) == line_tokens[3] = <<"A", "A">>
IsCut(line_tokens) == line_tokens[4] = <<"C">>

\* The ids of the events of the list, in list order.
Ids == [i \in 1..Len(_edits) |-> id(_edits[i]).val]

\* The number of the row at position k minus the audio-only rows before it.
AdjustedNumber(f, k) ==
    int(f[k][1])
    - Cardinality({ j \in 1..(k - 1) : IsRow(f[j]) /\ IsAudio(f[j]) })

\* One id per cut row that is not audio-only, in file order.
RECURSIVE CutRowIds(_, _)
CutRowIds(f, k) ==
    IF k > Len(f) THEN <<>>
    ELSE IF IsRow(f[k]) /\ ~IsAudio(f[k]) /\ IsCut(f[k])
    THEN <<AdjustedNumber(f, k)>> \o CutRowIds(f, k + 1)
    ELSE CutRowIds(f, k + 1)

\* C6 as stated: after a successful parse the list holds one event per cut
\* row that is not audio-only, in file order, with the row's number minus
\* the number of audio-only rows before it as its id.
C6_AsStated == pc = "done" => Ids = CutRowIds(file, 1)

\* One id per cut row that is not audio-only and whose adjusted number is
\* not the id of the event open when the row is read; open is that event's
\* id in a list of one, the empty list when no event is open.
RECURSIVE OpeningRowIds(_, _, _)
OpeningRowIds(f, k, open) ==
    IF k > Len(f) THEN <<>>
    ELSE IF /\ IsRow(f[k]) /\ ~IsAudio(f[k]) /\ IsCut(f[k])
            /\ open # <<AdjustedNumber(f, k)>>
    THEN <<AdjustedNumber(f, k)>>
         \o OpeningRowIds(f, k + 1, <<AdjustedNumber(f, k)>>)
    ELSE OpeningRowIds(f, k + 1, open)

TitledFile ==
    <<<<TITLE_, <<"T">>>>, <<FCM_, NON_DROP_, FRAME_>>,
      Row(1, <<"V">>, <<"C">>, CutTimecodes(1)),
      Row(2, <<"V">>, <<"C">>, CutTimecodes(2))>>

AudioFile ==
    <<Row(1, AA_, <<"C">>, CutTimecodes(1)),
      Row(2, <<"V">>, <<"C">>, CutTimecodes(2))>>

\* C6: after a successful parse the list holds, in file order, one event
\* per cut row that is not audio-only and whose number, minus the number of
\* audio-only rows before it, differs from the id of the event open when
\* the row is read; that difference is the event's id, and no other row
\* adds an event.  A title, "FCM: NON-DROP FRAME" and cut rows 001 and 002
\* give the title, drop_frame False and events 1 and 2; an audio-only row
\* and a cut row 002 give the single event 1.
C6_Events ==
    /\ pc = "done" => Ids = OpeningRowIds(file, 1, <<>>)
    /\ (pc = "done" /\ file = TitledFile) =>
          /\ _title = <<"T">> /\ _drop_frame = "False" /\ Ids = <<1, 2>>
    /\ (pc = "done" /\ file = AudioFile) => Ids = <<1>>

\* An audio-only row, then cut rows 002, 002 and 003: the second 002 finds
\* event 1 open with its own adjusted number and adds no event.
C6_Witness ==
    /\ pc = "done"
    /\ file = <<Row(1, AA_, <<"C">>, CutTimecodes(1)),
                Row(2, <<"V">>, <<"C">>, CutTimecodes(2)),
                Row(2, <<"V">>, <<"C">>, CutTimecodes(2)),
                Row(3, <<"V">>, <<"C">>, CutTimecodes(3))>>
    /\ Ids = <<1, 2>>
    /\ Len(_edits[1]._effects) = 1

\* The fields of a Timecode instance and of the timecode a token spells.
Hmsf(timecode) ==
    <<timecode._hours, timecode._minutes, timecode._seconds, timecode._frames>>
Spelt(token) == parse_timecode(token).val

\* The tokens of the effect at a position <<event, effect>>.
EffectTokens(edits, p) == Split(edits[p[1]]._effects[p[2]])

\* The positions of the effects whose 4th token is exactly D, carried by an
\* event that is not the first; the positions of all transitions.
Dissolves(edits) ==
    { p \in Effects(edits) : p[1] > 1 /\ EffectTokens(edits, p)[4] = <<"D">> }
Transitions(edits) ==
    { p \in Effects(edits) :
        EffectTokens(edits, p)[4][1] \in {"D", "d", "W", "w"} }

\* What the fix-up of the dissolve at p does to the events from, which it
\* turns into the events to: the previous event's out points move by the
\* frame count of the 5th token, the event's timecodes are those of the
\* 6th to 9th tokens.
FixedUp(from, to, p) ==
    LET t == EffectTokens(from, p)
        this == to[p[1]]
        prev == p[1] - 1
    IN /\ to_frame(to[prev]._source_out).val
            = to_frame(from[prev]._source_out).val + int(t[5])
       /\ to_frame(to[prev]._record_out).val
            = to_frame(from[prev]._record_out).val + int(t[5])
       /\ Hmsf(this._source_in) = Spelt(t[6])
       /\ Hmsf(this._source_out) = Spelt(t[7])
       /\ Hmsf(this._record_in) = Spelt(t[8])
       /\ Hmsf(this._record_out) = Spelt(t[9])

\* C7 as stated: after the parse, for every dissolve carried by an event
\* that is not the first, the previous event's out points are those of
\* before the second pass plus the frame count, the event's timecodes are
\* those of the effect line, and has_transitions is True.
C7_AsStated ==
    pc = "done" =>
       \A p \in Dissolves(_edits) :
          FixedUp(before, _edits, p) /\ _has_transitions

\* C7: the step of the second pass that takes a dissolve carried by an
\* event that is not the first, when it raises nothing, moves the previous
\* event's source_out and record_out by the frame count of the 5th token
\* from where they were just before the step and sets the event's four
\* timecodes to those of the 6th to 9th tokens; after a successful parse
\* has_transitions is True if there is such a dissolve, and if that
\* dissolve is the only transition of the list the events compare in this
\* way with the events of before the second pass.
C7_Dissolve ==
    /\ [][ (pc = "fixup" /\ exc' = "None" /\ fix' # fix
            /\ fix \in Dissolves(_edits))
           => FixedUp(_edits, _edits', fix) /\ _has_transitions' ]_vars
    /\ [](pc = "done" =>
            \A p \in Dissolves(_edits) :
               /\ _has_transitions
               /\ Transitions(_edits) = {p} => FixedUp(before, _edits, p))

\* Cut rows 001 and 002 and a dissolve of 24 frames on 002: event 1 ends 24
\* frames later on both sides.
C7_Witness ==
    /\ pc = "done" /\ _has_transitions
    /\ file = <<Row(1, <<"V">>, <<"C">>, CutTimecodes(1)),
                Row(2, <<"V">>, <<"C">>, CutTimecodes(2)),
                Row(2, <<"V">>, <<"D">>,
                    <<<<"0", "2", "4">>>> \o EffectTimecodes(2))>>
    /\ Dissolves(_edits) = {<<2, 1>>}
    /\ to_frame(_edits[1]._source_out).val
         = to_frame(before[1]._source_out).val + 24
    /\ Hmsf(_edits[2]._record_in) = <<0, 0, 1, 12>>

\* C8 as stated: with a visitor, a successful parse calls it once for each
\* event of the list, in list order, the last one at the end of the file.
C8_AsStated ==
    (pc = "done" /\ visitor # "None") => visits = [i \in 1..Len(_edits) |-> i]

-----------------------------------------------------------------------------
(* Claims on the frame code mode notices and on the failures of the parse. *)

\* A frame code mode line with one of the two recognized values.
IsFCM(l) == Len(l) > 0 /\ ~startswith(l[1], TITLE_) /\ startswith(l[1], FCM_)
IsNotice(l) ==
    IsFCM(l) /\ Len(l) >= 3 /\ l[2] \in {DROP_, NON_DROP_} /\ l[3] = FRAME_

Notices(f) == { k \in 1..Len(f) : IsNotice(f[k]) }
FirstNotice(f) == CHOOSE k \in Notices(f) : \A j \in Notices(f) : k <= j

\* The parse failed while reading the lines, on the last line of file.
FailedOnLine == pc = "failed" /\ fix = NoEffect /\ before = <<>> /\ file # <<>>

\* C11: the list's flag is set by the first recognized FCM line of the file
\* (True for DROP FRAME, False for NON-DROP FRAME) and by no later one, and
\* a recognized FCM line never fails the parse.
C11_FirstNotice ==
    pc # "idle" =>
        /\ _drop_frame = IF Notices(file) = {} THEN "None"
                         ELSE BoolStr(file[FirstNotice(file)][2] = DROP_)
        /\ FailedOnLine => ~IsNotice(file[Len(file)])

\* A finished parse of a file whose second notice conflicts with the first.
C11_Witness ==
    /\ pc = "done" /\ _drop_frame = "True"
    /\ \E j, k \in Notices(file) :
         j < k /\ file[j][2] = DROP_ /\ file[k][2] = NON_DROP_

\* sub is a part of the string msg
Contains(msg, sub) ==
    \E i \in 1..(Len(msg) - Len(sub) + 1) : SubSeq(msg, i, i + Len(sub) - 1) = sub

IsTitle(l) == Len(l) > 0 /\ startswith(l[1], TITLE_)
IsBL(l) == Len(l) > 1 /\ l[2] = BL_

\* The parse stopped on the black slug of the last line read, before the
\* second pass, with a BadBLError that names the file.
StoppedOnBL(k) ==
    /\ k = Len(file) /\ FailedOnLine
    /\ exc = "BadBLError" /\ issubclass(exc, "UnsupportedEDLFeature")
    /\ Len(args) = 1 /\ Contains(args[1], basename(path))
    /\ ~_has_transitions

C13_AsStated ==
    \A k \in 1..Len(file) :
        (IsFCM(file[k]) /\ ~IsNotice(file[k])) =>
            /\ k = Len(file) /\ FailedOnLine
            /\ exc = "BadFCMError" /\ issubclass(exc, "UnsupportedEDLFeature")
            /\ Len(args) = 1 /\ Contains(args[1], basename(path))

\* The line being read in a step of the loop over the lines.
LineRead == file'[Len(file')]
ReadsLine == pc = "lines" /\ Len(file') = Len(file) + 1

\* An M2 line, or a numbered row that is not audio and not a cut.
IsUnexpected(l) ==
    \/ l[1] = M2_
    \/ isdigit(l[1]) /\ Len(l) >= 4 /\ l[3] # AA_ /\ l[4] # <<"C">>

RejectsLine ==
    /\ pc' = "failed" /\ exc' = "RuntimeError"
    /\ _edits' = <<>> /\ edit' = 0 /\ fix' = fix

\* C14 as stated: an M2 line or a non-audio, non-cut numbered row read while
\* no event is open fails the parse with a RuntimeError and creates no event.
C14_AsStated ==
    [][(ReadsLine /\ edit = 0 /\ IsUnexpected(LineRead)) => RejectsLine]_vars

\* C14: an M2 line or a non-audio, non-cut numbered row, whose second token
\* is not BL, read while no event is open fails the parse with a
\* RuntimeError and creates no event.
C14_Unexpected ==
    [][(ReadsLine /\ edit = 0 /\ IsUnexpected(LineRead) /\ ~IsBL(LineRead))
        => RejectsLine]_vars

\* A dissolve row as the first line of the file.
C14_Witness ==
    /\ pc = "failed" /\ exc = "RuntimeError" /\ _edits = <<>>
    /\ Len(file) = 1 /\ isdigit(file[1][1]) /\ file[1][4] = <<"D">>

\* What the loop over the lines, or the visitor's call at the end of the
\* file, raises in this step.
RaisedNow ==
    IF ReadsLine THEN ReadTokens(Reading, LineRead).exc ELSE Visit(Reading).exc

\* C15 as stated: an exception raised while the lines are read, the
\* visitor's included, leaves read_cmx_edl with its type, its message
\* holding the path of the file and the text of the line being read.
C15_AsStated ==
    [][(pc = "lines" /\ pc' = "failed") =>
          /\ exc' = RaisedNow
          /\ Len(args') > 0
          /\ Contains(args'[1], path)
          /\ Contains(args'[1], Join(file'[Len(file')]))]_vars

\* C16 as stated: after a failed parse the title, the events and the flags
\* of the list are as they were before the call, on a new list: unset,
\* empty, unset and False.
C16_AsStated ==
    pc = "failed" =>
        /\ _title = <<>> /\ _edits = <<>>
        /\ _drop_frame = "None" /\ ~_has_transitions

-----------------------------------------------------------------------------
(* Claims on the operators of Timecode (specification SpecArith)           *)

\* The frames the other operand of the session stands for.
RightFrames ==
    IF tcArgs.right.type = "Timecode" THEN to_frame(tcArgs.right.o).val
    ELSE tcArgs.right.n

SameRateAndMode(a, b) == a._fps = b._fps /\ a._drop_frame = b._drop_frame

\* The claim covers an int, a Timecode of the same rate and mode, and the
\* operands of other types.
Covered(a) ==
    tcArgs.right.type = "Timecode" => SameRateAndMode(a, tcArgs.right.o)

\* The result r of an operation on a is a Timecode of a's rate and mode.
ExactResult(a, r, frames) ==
    /\ r.kind = "obj"
    /\ SameRateAndMode(r.o, a)
    /\ to_frame(r.o) = Ok(frames)

\* C17 as stated: a + n, a - n, a + b and a - b are Timecodes of a's rate and
\* mode whose frame is the sum, or the difference, of the operands' frames,
\* whatever the integer n and the Timecode b of a's rate and mode; another
\* type of operand is a type error; the operands stay as they were.
C17_AsStated ==
    \A i \in TCSteps :
        LET a == tcChain[i].o
            r == tcChain[i + 1]
        IN (tcChain[i].kind = "obj" /\ Covered(a)) =>
             /\ (TCStep(i, "__add__") /\ tcArgs.right.type \in {"Timecode", "int"})
                  => ExactResult(a, r, to_frame(a).val + RightFrames)
             /\ (TCStep(i, "__sub__") /\ tcArgs.right.type \in {"Timecode", "int"})
                  => ExactResult(a, r, to_frame(a).val - RightFrames)
             /\ ((TCStep(i, "__add__") \/ TCStep(i, "__sub__"))
                    /\ tcArgs.right.type \in OtherTypes)
                  => (r.kind = "exc" /\ r.e = "TypeError")

-----------------------------------------------------------------------------
(* Claim on the durations of the events of a list (specification           *)
(* SpecFailures)                                                           *)

\* The frame of a non-drop-frame timecode at 24 frames per second.
FrameAt24(timecode) ==
    ((timecode._hours * 60 + timecode._minutes) * 60 + timecode._seconds) * 24
    + timecode._frames

OneFrameLong(event) ==
    /\ Hmsf(event._record_in) = <<1, 0, 0, 0>>
    /\ Hmsf(event._record_out) = <<1, 0, 0, 1>>

\* C18: at every moment of a parse, events just built, retimed or changed by
\* the second pass alike, source_duration and record_duration of an event
\* are the frame of its out timecode minus the frame of its in timecode; an
\* event recorded from 01:00:00:00 to 01:00:00:01 has a record_duration of 1.
C18_Durations ==
    \A i \in 1..Len(_edits) :
        LET event == _edits[i] IN
        /\ source_duration(event)
             = Ok(to_frame(source_out(event).val).val
                  - to_frame(source_in(event).val).val)
        /\ record_duration(event)
             = Ok(to_frame(record_out(event).val).val
                  - to_frame(record_in(event).val).val)
        /\ record_duration(event).val
             = FrameAt24(event._record_out) - FrameAt24(event._record_in)
        /\ OneFrameLong(event) => record_duration(event) = Ok(1)

\* A finished parse with the event of one frame, a retimed event and an
\* event the second pass changed.
C18_Witness ==
    /\ pc = "done" /\ _has_transitions
    /\ \E i \in 1..Len(_edits) : OneFrameLong(_edits[i])
    /\ \E i \in 1..Len(_edits) : has_retime(_edits[i]).val
    /\ \E i \in 1..Len(_edits) : _edits[i] # before[i]

-----------------------------------------------------------------------------
(* Claims on the string functions (specification SpecStrings)              *)

Letters ==
    {"a", "b", "c", "d", "e", "f", "g", "h", "i", "j", "k", "l", "m", "n", "o",
     "p", "q", "r", "s", "t", "u", "v", "w", "x", "y", "z",
     "A", "B", "C", "D", "E", "F", "G", "H", "I", "J", "K", "L", "M", "N", "O",
     "P", "Q", "R", "S", "T", "U", "V", "W", "X", "Y", "Z"}

IsAlphanumeric(c) == IsDigitChar(c) \/ c \in Letters

\* x is an hours group of hl digits and three groups of two digits, with
\* one character that is neither a letter nor a digit between the groups.
FourGroups(x, hl) ==
    /\ Len(x) = hl + 9
    /\ \A i \in (1..hl) \cup {hl + 2, hl + 3, hl + 5, hl + 6, hl + 8, hl + 9} :
         IsDigitChar(x[i])
    /\ \A i \in {hl + 1, hl + 4, hl + 7} : ~IsAlphanumeric(x[i])

\* C19 as stated: parse_timecode returns the four numbers of a string of a
\* 2 or 3 digit hours group and three 2 digit groups separated by single
\* characters that are neither letters nor digits, and raises a format error
\* for every other string.
C19_AsStated ==
    \A i \in TCSteps :
        TCStep(i, "parse_timecode") =>
            LET x == tcChain[i].s
                r == tcChain[i + 1]
            IN IF \E hl \in {2, 3} : FourGroups(x, hl)
               THEN /\ r.kind = "tuple"
                    /\ \E hl \in {2, 3} :
                         /\ FourGroups(x, hl)
                         /\ r.s = << int(SubSeq(x, 1, hl)),
                                     int(SubSeq(x, hl + 2, hl + 3)),
                                     int(SubSeq(x, hl + 5, hl + 6)),
                                     int(SubSeq(x, hl + 8, hl + 9)) >>
               ELSE r.kind = "exc" /\ r.e = "ValueError"

\* C20 as stated: str_is_drop_frame answers from the character before the
\* two digits that end the string: True for ; , and . and False for : ; any
\* other character there, or a string not ending so, is a format error.
C20_AsStated ==
    \A i \in TCSteps :
        TCStep(i, "str_is_drop_frame") =>
            LET x == tcChain[i].s
                n == Len(x)
                r == tcChain[i + 1]
            IN IF n >= 3 /\ IsDigitChar(x[n]) /\ IsDigitChar(x[n - 1])
                  /\ x[n - 2] \in {";", ",", ".", ":"}
               THEN r.kind = "bool" /\ (r.b <=> x[n - 2] \in {";", ",", "."})
               ELSE r.kind = "exc" /\ r.e = "ValueError"

-----------------------------------------------------------------------------
(* Claims on the second pass and on the events between their opening and   *)
(* the second pass (specification Spec)                                    *)

\* The transitions that are not a D dissolve carried by an event with a
\* previous one: wipes, other D tokens, a dissolve on the first event.
OtherTransitions(edits) == Transitions(edits) \ Dissolves(edits)

Timecodes(event) ==
    <<event._source_in, event._source_out, event._record_in, event._record_out>>

\* A step of the second pass that takes such a transition and raises nothing.
TakesOtherTransition ==
    /\ pc = "fixup" /\ exc' = "None" /\ fix' # fix
    /\ fix \in OtherTransitions(_edits)

IsReverse(l) == l[1] = M2_ /\ Len(l) >= 3 /\ l[3][1] = "-"

-----------------------------------------------------------------------------
(* Claims on add_retime (specification SpecRetime)                         *)

\* The step is a call of add_retime that returned.
Retimes == evOp' # evOp /\ evOp'[Len(evOp')].exc = "None"

\* tokens[2] of the call of the step, as the quotient float() gives
SpeedOf(access) == float(access.val[3]).val

\* tokens[3] of the call of the step, as a frame number
SourceFrameOf(access, event) ==
    to_frame(Timecode(access.val[4], InstanceAttr(event, "_fps").val,
                      InstanceAttr(event, "_drop_frame").val, TRUE).val).val

\* The text ends with the warning of a source n frames short.
WarnsShort(text, n) ==
    /\ Len(text) >= 3
    /\ SubSeq(text, Len(text) - 2 - Len(str(n)) + 1, Len(text))
         = <<" Warn: source is ">> \o str(n) \o <<" frames short!">>

\* C23 as stated: with s = speed / fps * d and r the frame of the M2 source
\* in, a retime of negative speed with r + s < 0 leaves the event's source
\* in on frame 0 and a warning of |r + s| frames in the comment, a retime of
\* negative speed with r + s >= 0 leaves the source in on frame r + s + 1,
\* and a retime of speed >= 0 leaves the source in as it was.  A fraction
\* of a frame may go either way.
C23_AsStated ==
    [][Retimes =>
         LET access == evOp'[Len(evOp')]
             v == SpeedOf(access)
             d == record_duration(ev).val
             r == SourceFrameOf(access, ev)
             rate == InstanceAttr(ev, "_fps").val
             common == GCD(1000, rate)
             den == v.den * (rate \div common)
             num == (1000 \div common) * v.num * d
             s_floor == num \div den
             s_ceil == -((-num) \div den)
             now == to_frame(ev'._source_in).val
         IN IF v.nan THEN TRUE
            ELSE IF v.num >= 0 THEN ev'._source_in = ev._source_in
            ELSE IF r + s_floor < 0
            THEN /\ now = 0
                 /\ \E n \in (-(r + s_ceil))..(-(r + s_floor)) :
                      WarnsShort(retime_comment(ev').val, n)
            ELSE now \in (r + s_floor + 1)..(r + s_ceil + 1)]_vars

\* The text starts with the pieces given.
StartsWith(text, pieces) ==
    Len(text) >= Len(pieces) /\ SubSeq(text, 1, Len(pieces)) = pieces

\* |num / den| < 0.0001
IsFreeze(v) == (IF v.num < 0 THEN -v.num ELSE v.num) * 10000 < v.den

\* C24 as stated: after a retime of speed token v the event has a retime and
\* its retime comment starts with exactly one label, "Freeze Frame" when
\* |v| < 0.0001, otherwise "Reverse motion" when v < 0, otherwise "Slow
\* motion", followed by the record duration of the event in frames.
C24_AsStated ==
    [][Retimes =>
         LET access == evOp'[Len(evOp')]
             v == SpeedOf(access)
             d == str(to_frame(ev._record_out).val - to_frame(ev._record_in).val)
             text == retime_comment(ev')
         IN /\ has_retime(ev').val
            /\ text.exc = "None"
            /\ IF ~v.nan /\ IsFreeze(v)
               THEN StartsWith(text.val, <<"Freeze Frame", " (duration ">> \o d)
               ELSE IF ~v.nan /\ v.num < 0
               THEN StartsWith(text.val, <<"Reverse motion", " (">> \o access.val[3]
                                         \o <<" fps , record dur ">> \o d)
               ELSE IF ~v.nan /\ v.num > 0
               THEN StartsWith(text.val, <<"Slow motion", " (">> \o access.val[3]
                                         \o <<" fps , record dur ">> \o d)
               ELSE FALSE]_vars

-----------------------------------------------------------------------------
(* Claims on the rows and the comments of the line pass                    *)

\* A numbered row that is not an audio row.
IsVideoRow(l) == Len(l) >= 4 /\ isdigit(l[1]) /\ l[3] # AA_

\* The row read by the step has the id of the open event.
ContinuesEvent ==
    /\ ReadsLine /\ IsVideoRow(LineRead) /\ edit # 0
    /\ int(LineRead[1]) - id_offset = id(_edits[edit]).val

\* The row read is appended to the effects of the open event and nothing
\* else happens: no event more, the same event open, no call of the visitor.
AppendsEffect ==
    /\ pc' = "lines" /\ exc' = "None"
    /\ _edits' = [_edits EXCEPT ![edit] = add_effect(_edits[edit], LineRead)]
    /\ Len(_edits') = Len(_edits) /\ edit' = edit /\ visits' = visits

\* C25 as stated: a non-audio numbered row whose adjusted id is the id of
\* the open event is appended to the effects of that event whatever its
\* event type; no event is added, the event stays open and the visitor is
\* not called.
C25_AsStated == [][ContinuesEvent => AppendsEffect]_vars

\* C25: the same, for rows whose second token is not BL; a row whose second
\* token is BL stops the parse with BadBLError and is not appended.
C25_Continuation ==
    [][ContinuesEvent =>
         IF IsBL(LineRead)
         THEN pc' = "failed" /\ exc' = "BadBLError" /\ _edits' = _edits
         ELSE AppendsEffect]_vars

\* Two cut rows numbered 001 read with a visitor that raises when called:
\* one event, the second row among its effects, the visitor not called.
C25_Witness ==
    /\ pc = "lines" /\ visitor = "raises" /\ Len(file) = 2
    /\ IsVideoRow(file[2]) /\ file[2][4] = <<"C">> /\ file[1] # file[2]
    /\ Len(_edits) = 1 /\ edit = 1
    /\ _edits[1]._effects = <<Join(file[2])>>
    /\ visits = <<>> /\ exc = "None"

\* A line that is no title, no frame code mode line, no black slug line, no
\* retime and no numbered row.
IsComment(l) ==
    /\ ~IsTitle(l) /\ ~IsFCM(l) /\ ~IsBL(l)
    /\ Len(l) > 0 => (l[1] # M2_ /\ ~isdigit(l[1]))

\* A numbered row of an audio track.
IsAudioRow(l) == Len(l) >= 4 /\ isdigit(l[1]) /\ ~IsBL(l) /\ l[3] = AA_

\* C26 as stated: a comment line read is appended after the comments of the
\* open event, every other event and the open event's other attributes
\* staying as they are, and is dropped when no event is open; an audio row
\* read leaves every event as it is and the open event open, so that the
\* lines after it go to the event that was open before it.
C26_AsStated ==
    [][ReadsLine =>
         /\ IsComment(LineRead) =>
              /\ pc' = "lines" /\ edit' = edit /\ visits' = visits
              /\ IF edit = 0 THEN _edits' = _edits
                 ELSE _edits' =
                        [_edits EXCEPT ![edit]._comments =
                                           Append(@, LineText(LineRead))]
         /\ IsAudioRow(LineRead) =>
              /\ pc' = "lines" /\ edit' = edit /\ visits' = visits
              /\ _edits' = _edits]_vars

\* The number of events the lines read so far have opened.
Opened(lines) == Len(ReadAll(FreshList, lines).edits)

\* The position in the file of the row that opened the open event.
Opener ==
    CHOOSE k \in 1..Len(file) :
        /\ Opened(SubSeq(file, 1, k)) = Opened(file)
        /\ Opened(SubSeq(file, 1, k - 1)) < Opened(file)

\* C28 as stated: a cut row that is not an audio row, read without an error
\* while an event is open, opens a new event when its number is not the
\* number of the row that opened the open event.
C28_AsStated ==
    [][(/\ ReadsLine /\ pc' = "lines" /\ edit # 0
        /\ IsVideoRow(LineRead) /\ LineRead[4] = <<"C">>
        /\ int(LineRead[1]) # int(file[Opener][1]))
          => (Len(_edits') = Len(_edits) + 1 /\ edit' = Len(_edits'))]_vars

\* The drop frame modes of the four timecodes of an event
Modes(event) ==
    { event._source_in._drop_frame, event._source_out._drop_frame,
      event._record_in._drop_frame, event._record_out._drop_frame }

\* C29 as stated: when the parse of a file with a frame code mode notice has
\* returned, the drop frame flag of every event is the flag of the list, and
\* the four timecodes of every event are of one drop frame mode.
C29_AsStated ==
    (pc = "done" /\ Notices(file) # {}) =>
        \A i \in 1..Len(_edits) :
            /\ drop_frame(_edits[i]).val = _drop_frame
            /\ Cardinality(Modes(_edits[i])) = 1

-----------------------------------------------------------------------------
(* Claims on parsing again (specification SpecReparse)                     *)

\* C27 as stated: when read_cmx_edl returns, the title, the events, the
\* drop frame flag and the has_transitions flag of the list are those a new
\* list has after parsing the same file, whatever the list parsed before.
C27_AsStated ==
    pc = "done" =>
        LET fresh == FreshParse(file)
        IN /\ fresh.exc = "None"
           /\ _title = fresh.title /\ _edits = fresh.edits
           /\ _drop_frame = fresh.drop_frame
           /\ _has_transitions = fresh.has_transitions

-----------------------------------------------------------------------------
(* Claims on drop frame labels (specification SpecLabels)                  *)

\* The positions of the session where to_frame has answered for the drop
\* frame Timecode built just before.
Framed ==
    { i \in 2..Len(tcChain) :
        /\ tcChain[i].kind = "frame" /\ tcChain[i - 1].kind = "obj"
        /\ tcChain[i - 1].o._drop_frame = "True" }

\* C30 as stated: two drop frame Timecodes of one rate whose fields differ
\* never have the same frame number.
C30_AsStated ==
    \A i, j \in Framed :
        Hmsf(tcChain[i - 1].o) # Hmsf(tcChain[j - 1].o)
            => tcChain[i].n # tcChain[j].n

=============================================================================
